---- MODULE Spec2Model ----
(***************************************************************************)
(* A model of the Phoebe transport code: the MPI controller (process       *)
(* grid, work division), the Matrix wrapper over serial and distributed    *)
(* storage, the solver driver PhononTransportApp::run, the routines of     *)
(* ElPhQeToPhoebeApp and FullBandStructure.                                *)
(*                                                                         *)
(* Every part has its own specification (SpecMPI, SpecMatrix, Spec,        *)
(* SpecApp, SpecOmp, SpecOffset, SpecBands, SpecHdf5); the variables of    *)
(* the other parts are held at their idle value.                           *)
(***************************************************************************)
EXTENDS Integers, Sequences, FiniteSets, TLC

VARIABLES
  \* ---- MPIcontroller
  mpiEnv,             \* the build and the MPI world the process is started in
  mpiPc,              \* "idle" | "start" | "ready" | "error" | "aborted"
  world,              \* the processes of MPI_COMM_WORLD: rank -> "running" | "aborted"
  errCode,            \* what the last MPI_Barrier returned, "" before any
  errMessage,         \* message of the Error that ended the process, or ""
  size,               \* MPIcontroller::size
  rank,               \* MPIcontroller::rank
  numBlasRows_,       \* MPIcontroller::numBlasRows_
  numBlasCols_,       \* MPIcontroller::numBlasCols_
  workDivisionHeads,  \* MPIcontroller::workDivisionHeads (index r+1 holds rank r)
  workDivisionTails,  \* MPIcontroller::workDivisionTails
  numTasks,           \* argument of the last divideWork call, -1 before any
  numTasksBefore,     \* argument of the divideWork call before the last, -1 if none
  \* ---- Matrix<T>
  matPc,              \* "idle" | "start" | "prod" | "diagonalize"
  matScalar,          \* "double" | "complex": the T of Matrix<T>
  matThis,            \* the receiver: [isDistributed, mat, pmat]
  matThat,            \* the argument of prod
  matArgs,            \* <<trans1, trans2>> of the last prod call
  matResult,          \* what the last call returned
  \* ---- PhononTransportApp::run
  pc,                 \* the place the run has reached
  context,            \* the Context: the user's input, fixed during a run
  calls,              \* the methods called on scatteringMatrix so far, in order
  out,                \* what was printed and written to file so far, in order
  phononRelTimes, popRTA, phTCond, phTCondWigner,
  doIterative, doVariational, doRelaxons,
  iter,               \* the loop counter of the solver that is running
  converged,          \* the solvers whose convergence test has passed
  phTCondOld, sMatrixDiagonal, sMatrixDiagonalSqrt,
  fRTA, fOld, fNext,  \* iterative solver
  fNew, gOld, hOld, tOld,  \* variational solver
  \* ---- ElPhQeToPhoebeApp
  appPc,              \* the routine the processes run, or "idle"
  appIn,              \* its inputs: the process count, the sizes, the file
  procPc,             \* rank -> the step of the routine the process is at
  mem,                \* rank -> the memory of the process
  \* ---- the OpenMP region of ElPhQeToPhoebeApp::blochToWannier
  team,               \* the sizes, the number of threads, the schedules
  teamPc,             \* thread -> the place the thread has reached
  tmp, tmp2,          \* thread -> its private tensor
  gFullTmpKQ,         \* the block gFullTmp(:, :, :, ik, iq), shared
  \* ---- ElPhQeToPhoebeApp::computeOffset
  offsetPc,           \* the place the call has reached
  energiesQEAtZero,   \* Eigen::VectorXd, the bands of the ab-initio run at k = 0
  energiesWannierAtZero,  \* std::vector<double>, the bands of the .eig file
  difference,         \* Eigen::VectorXd(possibleValues)
  loopAt,             \* <<i, ib>> of the double loop
  offset,             \* the local offset, then the value returned
  reads,              \* the indexed reads done so far: [array, index, size]
  \* ---- FullBandStructure
  fbs,                \* object -> the fields of the FullBandStructure
  ret,                \* the last call and what it returned
  \* ---- the parallel HDF5 write of ElPhQeToPhoebeApp::postProcessingWannier
  hdf5In,             \* the number of processes and the size of gwan
  hdf5Pc,             \* rank -> the place the process has reached
  gwanSlice,          \* rank -> the elements of gwan the process took
  dgwannier           \* the data set /gWannier: element -> the values written to it

mpiVars == <<mpiEnv, mpiPc, world, errCode, size, rank, numBlasRows_, numBlasCols_,
             workDivisionHeads, workDivisionTails, numTasks, numTasksBefore>>

matVars == <<matPc, matScalar, matThis, matThat, matArgs, matResult>>

rtaVars == <<phononRelTimes, popRTA, phTCondWigner>>
flagVars == <<doIterative, doVariational, doRelaxons>>
iterVars == <<fRTA, fNext>>
cgVars == <<sMatrixDiagonalSqrt, fNew, gOld, hOld, tOld>>
loopVars == <<iter, converged, phTCondOld, sMatrixDiagonal, fOld>>
runVars == <<pc, context, calls, out, phTCond, rtaVars, flagVars, iterVars,
             cgVars, loopVars>>

appVars == <<appPc, appIn, procPc, mem>>

ompVars == <<team, teamPc, tmp, tmp2, gFullTmpKQ>>

\* the parts modelled each on its own
offsetVars == <<offsetPc, energiesQEAtZero, energiesWannierAtZero, difference, loopAt,
                offset, reads>>

bandVars == <<fbs, ret>>

hdf5Vars == <<hdf5In, hdf5Pc, gwanSlice, dgwannier>>

partVars == <<ompVars, offsetVars, bandVars, hdf5Vars>>

otherVars == <<mpiVars, matVars, appVars, partVars>>   \* what PhononTransportApp::run leaves alone

vars == <<errMessage, mpiVars, matVars, runVars, appVars, partVars>>

\* ------------------------------------------------------------------ bounds

MaxSize == 5    \* largest number of MPI processes
MaxTasks == 6   \* largest task count handed to divideWork
MaxCalcs == 2        \* most temperature/chemical potential pairs
MaxIterations == 2   \* largest maxIterationsBTE
MaxProcs == 2        \* most processes running a routine of ElPhQeToPhoebeApp
MaxPoints == 2       \* most k points, q points and Bravais lattice vectors
MaxBands == 3        \* most bands, and most Wannier functions
MaxThreads == 2      \* most OpenMP threads of a team


\* ------------------------------------------------------------------ numbers

\* A double is modelled as an exact fraction <<numerator, denominator>> in
\* lowest terms with a positive denominator; NonFinite stands for the values
\* a division by zero makes (NaN, inf), which every operation hands on and
\* which compare false with everything.
NonFinite == <<0, 0>>

Abs(n) == IF n < 0 THEN -n ELSE n

RECURSIVE GCD(_, _)
GCD(a, b) == IF b = 0 THEN a ELSE GCD(b, a % b)

Rat(n, d) ==
  IF d = 0 THEN NonFinite
  ELSE LET g == GCD(Abs(n), Abs(d))
           sgn == IF (n < 0) = (d < 0) THEN 1 ELSE -1
       IN <<sgn * (Abs(n) \div g), Abs(d) \div g>>

Zero == <<0, 1>>
IsFinite(x) == x[2] # 0
\* fractions in lowest terms are added over the least common denominator and
\* multiplied after cancelling across, which keeps the integers small
RAdd(x, y) == IF IsFinite(x) /\ IsFinite(y)
                THEN LET g == GCD(x[2], y[2])
                     IN Rat(x[1] * (y[2] \div g) + y[1] * (x[2] \div g),
                            (x[2] \div g) * y[2])
                ELSE NonFinite
RNeg(x) == IF IsFinite(x) THEN <<-x[1], x[2]>> ELSE NonFinite
RSub(x, y) == RAdd(x, RNeg(y))
RMul(x, y) == IF IsFinite(x) /\ IsFinite(y)
                THEN LET g1 == GCD(Abs(x[1]), y[2])
                         g2 == GCD(Abs(y[1]), x[2])
                     IN Rat((x[1] \div g1) * (y[1] \div g2),
                            (x[2] \div g2) * (y[2] \div g1))
                ELSE NonFinite
RInv(y) == IF y[1] = 0 THEN NonFinite
           ELSE IF y[1] < 0 THEN <<-y[2], -y[1]>> ELSE <<y[2], y[1]>>
RDiv(x, y) == IF IsFinite(x) /\ IsFinite(y) THEN RMul(x, RInv(y)) ELSE NonFinite
RAbs(x) == <<Abs(x[1]), x[2]>>
RLess(x, y) == IsFinite(x) /\ IsFinite(y) /\ RSub(x, y)[1] < 0
\* the square root; the model takes it of squares of fractions only
RSqrt(x) == IF IsFinite(x) /\ x[1] >= 0
              THEN <<CHOOSE r \in 0..x[1] : r * r <= x[1] /\ (r + 1) * (r + 1) > x[1],
                     CHOOSE r \in 0..x[2] : r * r <= x[2] /\ (r + 1) * (r + 1) > x[2]>>
              ELSE NonFinite

\* ------------------------------------------------------------------ Error

\* Error e(msg): prints the message and ends the process (exit code 1).
Error(msg) == [pc |-> "error", message |-> msg]


\* ------------------------------------------------------------------ Matrix<T>

\* A scalar is a complex number <<re, im>>; a double has im = 0.  A matrix is
\* the sequence of its rows; <<>> is the storage the Matrix does not use.
CAdd(x, y) == <<x[1] + y[1], x[2] + y[2]>>
CMul(x, y) == <<x[1] * y[1] - x[2] * y[2], x[1] * y[2] + x[2] * y[1]>>
CConj(x) == <<x[1], -x[2]>>

NumRows(m) == Len(m)
NumCols(m) == IF Len(m) = 0 THEN 0 ELSE Len(m[1])

Transpose(m) == [j \in 1..NumCols(m) |-> [i \in 1..NumRows(m) |-> m[i][j]]]
Adjoint(m) == [j \in 1..NumCols(m) |-> [i \in 1..NumRows(m) |-> CConj(m[i][j])]]

\* op(m) of BLAS: 'N' the matrix, 'T' its transpose, 'C' its adjoint
Op(m, trans) ==
  CASE trans = "N" -> m
    [] trans = "T" -> Transpose(m)
    [] trans = "C" -> Adjoint(m)

RECURSIVE CSum(_, _, _)
CSum(a, b, k) ==
  IF k = 0 THEN <<0, 0>> ELSE CAdd(CSum(a, b, k - 1), CMul(a[k], b[k]))

\* the dense product a * b
MatMul(a, b) ==
  [i \in 1..NumRows(a) |->
     [j \in 1..NumCols(b) |->
        CSum(a[i], [k \in 1..NumRows(b) |-> b[k][j]], NumRows(b))]]

\* SerialMatrix<T>::prod(that, trans1, trans2) and
\* ParallelMatrix<T>::prod(that, trans1 = 'N', trans2 = 'N')
SerialProd(m, that, trans1, trans2) == MatMul(Op(m, trans1), Op(that, trans2))
ParallelProd(m, that, trans1, trans2) == MatMul(Op(m, trans1), Op(that, trans2))
ParallelProdDefault(m, that) == ParallelProd(m, that, "N", "N")

\* SerialMatrix<T>::diagonalize(), ParallelMatrix<T>::diagonalize(): the
\* eigenvalues and eigenvectors of the storage they are called on
KernelDiagonalize(m) == [eigvals |-> <<"eigvals", m>>, eigvecs |-> <<"eigvecs", m>>]

Scalars(T) ==
  IF T = "double" THEN {<<0, 0>>, <<1, 0>>} ELSE {<<1, 0>>, <<0, 1>>}

TransFlags(T) == IF T = "double" THEN {"N", "T"} ELSE {"N", "T", "C"}

\* the square matrices of dimension 2 over the scalars of T
Dense(T) == [1..2 -> [1..2 -> Scalars(T)]]

\* Matrix<T>(numRows, numCols, ..., isDistributed): one storage is filled
MatrixObjects(T) ==
  { [isDistributed |-> d,
     mat  |-> IF d THEN <<>> ELSE m,
     pmat |-> IF d THEN m ELSE <<>>] : d \in BOOLEAN, m \in Dense(T) }

\* the storage a Matrix works on
Storage(M) == IF M.isDistributed THEN M.pmat ELSE M.mat

NoMatrix == [isDistributed |-> FALSE, mat |-> <<>>, pmat |-> <<>>]

MatIdle ==
  /\ matPc = "idle"
  /\ matScalar = "double"
  /\ matThis = NoMatrix
  /\ matThat = NoMatrix
  /\ matArgs = <<"N", "N">>
  /\ matResult = NoMatrix

MatInit ==
  /\ matPc = "start"
  /\ matScalar \in {"double", "complex"}
  /\ matThis \in MatrixObjects(matScalar)
  /\ matThat \in MatrixObjects(matScalar)
  /\ matArgs = <<"N", "N">>
  /\ matResult = NoMatrix

\* the distributed branch of Matrix<T>::prod
DistributedBranch(T, m, that, trans1, trans2) ==
  IF T = "complex"
    THEN ParallelProd(m, that, trans1, trans2)
    ELSE ParallelProdDefault(m, that)

\* Matrix<T>::prod(that, trans1, trans2), the value it returns
prod(T, M, that, trans1, trans2) ==
  LET c == M   \* copy this matrix
  IN IF M.isDistributed
       THEN [c EXCEPT !.pmat = DistributedBranch(T, M.pmat, that.pmat, trans1, trans2)]
       ELSE [c EXCEPT !.mat = SerialProd(M.mat, that.mat, trans1, trans2)]

\* Matrix<T>::diagonalize(), the tuple it returns
diagonalize(M) ==
  LET eigvecs == M   \* copy this matrix
  IN IF M.isDistributed
       THEN LET tup == KernelDiagonalize(M.pmat)
            IN [eigvals |-> tup.eigvals, eigvecs |-> [eigvecs EXCEPT !.pmat = tup.eigvecs]]
       ELSE LET tup == KernelDiagonalize(M.mat)
            IN [eigvals |-> tup.eigvals, eigvecs |-> [eigvecs EXCEPT !.mat = tup.eigvecs]]

CallProd(trans1, trans2) ==
  /\ matPc # "idle"
  /\ matPc' = "prod"
  /\ matArgs' = <<trans1, trans2>>
  /\ matResult' = prod(matScalar, matThis, matThat, trans1, trans2)
  /\ UNCHANGED <<matScalar, matThis, matThat>>
  /\ UNCHANGED <<errMessage, mpiVars, runVars, appVars, partVars>>

CallDiagonalize ==
  /\ matPc # "idle"
  /\ matPc' = "diagonalize"
  /\ matResult' = diagonalize(matThis)
  /\ UNCHANGED <<matScalar, matThis, matThat, matArgs>>
  /\ UNCHANGED <<errMessage, mpiVars, runVars, appVars, partVars>>

NextMatrix ==
  \/ \E trans1 \in TransFlags(matScalar), trans2 \in TransFlags(matScalar) :
       CallProd(trans1, trans2)
  \/ CallDiagonalize


\* ------------------------------------------------------------------ MPIcontroller

\* (int)(sqrt(size)): the square root rounded down
IntSqrt(n) == CHOOSE r \in 0..n : r * r <= n /\ (r + 1) * (r + 1) > n

\* the two source files of the controller: with the BLACS grid and without
MpiEnvs ==
  { e \in [blacs : BOOLEAN, mpiAvail : BOOLEAN,
           worldSize : 1..MaxSize, worldRank : 0..(MaxSize - 1)] :
      /\ e.worldRank < e.worldSize
      /\ (~e.mpiAvail => e.worldSize = 1)
      \* the controller without the grid sets size and rank only under MPI
      /\ (~e.blacs => e.mpiAvail) }

MpiIdle ==
  /\ mpiEnv = [blacs |-> FALSE, mpiAvail |-> FALSE, worldSize |-> 1, worldRank |-> 0]
  /\ mpiPc = "idle"
  /\ world = <<>>
  /\ errCode = ""
  /\ errMessage = ""
  /\ size = 1
  /\ rank = 0
  /\ numBlasRows_ = 1
  /\ numBlasCols_ = 1
  /\ workDivisionHeads = <<>>
  /\ workDivisionTails = <<>>
  /\ numTasks = -1
  /\ numTasksBefore = -1

MpiInit ==
  /\ mpiEnv \in MpiEnvs
  /\ mpiPc = "start"
  /\ world = [r \in 0..(mpiEnv.worldSize - 1) |-> "running"]
  /\ errCode = ""
  /\ errMessage = ""
  /\ size = 0
  /\ rank = 0
  /\ numBlasRows_ = 0
  /\ numBlasCols_ = 0
  /\ workDivisionHeads = <<>>
  /\ workDivisionTails = <<>>
  /\ numTasks = -1
  /\ numTasksBefore = -1

\* the grid does not hold every process
GridTooSmallOff(sz, rows, cols) == sz > rows * cols + 1
GridTooSmall(sz, rows, cols) == sz > rows * cols

\* MPIcontroller::MPIcontroller()
Constructor ==
  /\ mpiPc = "start"
  /\ size' = mpiEnv.worldSize
  /\ rank' = mpiEnv.worldRank
  /\ IF mpiEnv.blacs /\ mpiEnv.mpiAvail
       THEN LET rows == IntSqrt(mpiEnv.worldSize)
                cols == rows
            IN /\ numBlasRows_' = rows
               /\ numBlasCols_' = cols
               /\ IF GridTooSmall(mpiEnv.worldSize, rows, cols)
                    THEN LET e == Error("Phoebe needs a square number of MPI processes")
                         IN mpiPc' = e.pc /\ errMessage' = e.message
                    ELSE mpiPc' = "ready" /\ errMessage' = errMessage
       ELSE /\ numBlasRows_' = 1
            /\ numBlasCols_' = 1
            /\ mpiPc' = "ready"
            /\ errMessage' = errMessage
  /\ UNCHANGED <<mpiEnv, world, errCode, workDivisionHeads, workDivisionTails, numTasks, numTasksBefore>>
  /\ UNCHANGED <<matVars, runVars, appVars, partVars>>

\* std::vector<int>::resize(n): cut, or fill up with zeros
ResizeAppending(v, n) == v \o [i \in 1..n |-> 0]
Resize(v, n) == [i \in 1..n |-> IF i <= Len(v) THEN v[i] ELSE 0]

\* the first index of rank r, and the one after its last
workDivisionTailFloorFirst(n, r, sz) == (n \div sz) * (r + 1)
workDivisionHead(n, r, sz) == (n * r) \div sz
workDivisionTail(n, r, sz) == (n * (r + 1)) \div sz

\* for(int r = 0; r<size; r++) { heads[r] = ...; tails[r] = ...; }
RECURSIVE divideWorkLoop(_, _, _, _, _)
divideWorkLoop(heads, tails, r, n, sz) ==
  IF r < sz
    THEN divideWorkLoop([heads EXCEPT ![r + 1] = workDivisionHead(n, r, sz)],
                        [tails EXCEPT ![r + 1] = workDivisionTail(n, r, sz)],
                        r + 1, n, sz)
    ELSE [heads |-> heads, tails |-> tails]

\* MPIcontroller::divideWork(numTasks); the file with the grid clears the
\* vectors first, the other one only resizes them
divideWork(n) ==
  /\ mpiPc = "ready"
  /\ LET heads0 == IF mpiEnv.blacs THEN <<>> ELSE workDivisionHeads
         tails0 == IF mpiEnv.blacs THEN <<>> ELSE workDivisionTails
         done == divideWorkLoop(Resize(heads0, size), Resize(tails0, size), 0, n, size)
     IN /\ workDivisionHeads' = done.heads
        /\ workDivisionTails' = done.tails
  /\ numTasks' = n
  /\ numTasksBefore' = numTasks
  /\ UNCHANGED <<mpiEnv, mpiPc, world, errCode, errMessage, size, rank,
                 numBlasRows_, numBlasCols_>>
  /\ UNCHANGED <<matVars, runVars, appVars, partVars>>

workHead == workDivisionHeads[rank + 1]
workTail == workDivisionTails[rank + 1]

\* what MPI_Barrier(MPI_COMM_WORLD) can return
ErrCodes == {"MPI_SUCCESS", "MPI_ERR_COMM", "MPI_ERR_OTHER"}

\* MPIcontroller::errorReport(errCode): with MPI the message goes to stderr
\* and MPI_Abort(MPI_COMM_WORLD, errCode) ends every process of the
\* communicator; without MPI the body is empty and the call returns
errorReportNoAbort(code) == [pc |-> mpiPc, world |-> world]
errorReport(code) ==
  IF mpiEnv.mpiAvail
    THEN [pc |-> "aborted", world |-> [r \in DOMAIN world |-> "aborted"]]
    ELSE [pc |-> mpiPc, world |-> world]

\* MPIcontroller::barrier(); code is what MPI_Barrier returns to this process
barrier(code) ==
  /\ mpiPc = "ready"
  /\ IF mpiEnv.mpiAvail
       THEN /\ errCode' = code
            /\ IF code # "MPI_SUCCESS"
                 THEN LET r == errorReport(code)
                      IN mpiPc' = r.pc /\ world' = r.world
                 ELSE UNCHANGED <<mpiPc, world>>
       ELSE UNCHANGED <<errCode, mpiPc, world>>
  /\ UNCHANGED <<mpiEnv, errMessage, size, rank, numBlasRows_, numBlasCols_,
                 workDivisionHeads, workDivisionTails, numTasks, numTasksBefore>>
  /\ UNCHANGED <<matVars, runVars, appVars, partVars>>

NextMPI ==
  \/ Constructor
  \/ \E n \in 0..MaxTasks : divideWork(n)
  \/ \E code \in ErrCodes : barrier(code)



\* ------------------------------------------------------------------ BTE data

\* The quasiparticle states of the model, and one Cartesian direction.
States == {1, 2}

Calcs(ctx) == 1..ctx.numCalcs

\* ---- VectorBTE: [calculation -> [state -> number]]

VecAdd(a, b) == [ic \in DOMAIN a |-> [is \in States |-> RAdd(a[ic][is], b[ic][is])]]
VecSub(a, b) == [ic \in DOMAIN a |-> [is \in States |-> RSub(a[ic][is], b[ic][is])]]
VecMul(a, b) == [ic \in DOMAIN a |-> [is \in States |-> RMul(a[ic][is], b[ic][is])]]
VecDiv(a, b) == [ic \in DOMAIN a |-> [is \in States |-> RDiv(a[ic][is], b[ic][is])]]
VecNeg(a) == [ic \in DOMAIN a |-> [is \in States |-> RNeg(a[ic][is])]]
VecSqrt(a) == [ic \in DOMAIN a |-> [is \in States |-> RSqrt(a[ic][is])]]
\* VectorBTE::dot: one number per calculation
VecDot(a, b) ==
  [ic \in DOMAIN a |-> RAdd(RMul(a[ic][1], b[ic][1]), RMul(a[ic][2], b[ic][2]))]
\* VectorBTE * Eigen::MatrixXd: every calculation scaled by its own factor
VecScale(a, x) == [ic \in DOMAIN a |-> [is \in States |-> RMul(a[ic][is], x[ic])]]
\* Eigen array division of two dot products
ArrDiv(x, y) == [ic \in DOMAIN x |-> RDiv(x[ic], y[ic])]

\* bose (1 + bose) of a state: the factor between the population and its
\* canonical form
BoseFactor(ic, is) == Rat(is, 1)
population2Canonical(n) ==
  [ic \in DOMAIN n |-> [is \in States |-> RDiv(n[ic][is], BoseFactor(ic, is))]]
canonical2Population(f) ==
  [ic \in DOMAIN f |-> [is \in States |-> RMul(f[ic][is], BoseFactor(ic, is))]]

\* BulkTDrift: the driving force of the temperature gradient
BulkTDrift(ctx) ==
  [ic \in Calcs(ctx) |-> [is \in States |-> IF is = 1 THEN Rat(8 * ic, 1) ELSE Zero]]

\* ---- the scattering matrix: linewidths on the diagonal, the coupling of the
\* two states off it

Linewidth(is) == Rat(4, 1)
theMatrix(ctx) ==
  [ic \in Calcs(ctx) |->
     [i \in States |-> [j \in States |->
        IF i = j THEN Linewidth(i) ELSE ctx.coupling]]]

diagonal(ctx) == [ic \in Calcs(ctx) |-> [is \in States |-> theMatrix(ctx)[ic][is][is]]]
dot(ctx, v) ==
  [ic \in Calcs(ctx) |-> [i \in States |->
     RAdd(RMul(theMatrix(ctx)[ic][i][1], v[ic][1]),
          RMul(theMatrix(ctx)[ic][i][2], v[ic][2]))]]
offDiagonalDot(ctx, v) == VecSub(dot(ctx, v), VecMul(diagonal(ctx), v))
getSingleModeTimes(ctx) ==
  [ic \in Calcs(ctx) |-> [is \in States |-> RDiv(Rat(1, 1), diagonal(ctx)[ic][is])]]

\* ---- PhononThermalConductivity: one number per calculation

StateWeight(is) == Rat(is, 1)   \* energy times velocity of the state
calcFromPopulation(n) ==
  [ic \in DOMAIN n |-> RAdd(RMul(StateWeight(1), n[ic][1]),
                            RMul(StateWeight(2), n[ic][2]))]
calcFromCanonicalPopulation(f) == calcFromPopulation(canonical2Population(f))
\* the variational functional 2 f.b - f.A.f, af = A f, f in the scaled form
calcVariational(af, f, scalingCG) ==
  LET k == calcFromCanonicalPopulation(VecDiv(f, scalingCG))
      faf == VecDot(f, af)
  IN [ic \in DOMAIN f |-> RSub(RMul(Rat(2, 1), k[ic]), faf[ic])]
\* the exact solution A x = diagonal * fRTA, summed over the eigenmodes
calcFromRelaxons(ctx, n) ==
  LET A == theMatrix(ctx)
      b == VecMul(diagonal(ctx), population2Canonical(n))
      det(ic) == RSub(RMul(A[ic][1][1], A[ic][2][2]), RMul(A[ic][1][2], A[ic][2][1]))
      x == [ic \in Calcs(ctx) |->
              [is \in States |->
                 IF is = 1
                   THEN RDiv(RSub(RMul(b[ic][1], A[ic][2][2]), RMul(A[ic][1][2], b[ic][2])), det(ic))
                   ELSE RDiv(RSub(RMul(A[ic][1][1], b[ic][2]), RMul(A[ic][2][1], b[ic][1])), det(ic))]]
  IN calcFromCanonicalPopulation(x)
\* WignerPhononThermalConductivity: the population term plus the coherences
wignerCalcFromPopulation(n, times) ==
  LET k == calcFromPopulation(n)
  IN [ic \in DOMAIN n |-> RAdd(k[ic], RAdd(times[ic][1], times[ic][2]))]

\* (a - b).getNorm().maxCoeff()
RECURSIVE MaxCoeff(_, _)
MaxCoeff(x, n) ==
  IF n = 1 THEN x[1]
  ELSE LET m == MaxCoeff(x, n - 1)
       IN IF ~IsFinite(m) \/ ~IsFinite(x[n]) THEN NonFinite
          ELSE IF RLess(m, x[n]) THEN x[n] ELSE m
DiffNormMaxCoeff(a, b) ==
  MaxCoeff([ic \in DOMAIN a |-> RAbs(RSub(a[ic], b[ic]))], Len(a))


\* ------------------------------------------------------------------ PhononTransportApp::run

None == <<>>

SolverNames == {"iterative", "variational", "relaxons", "rta"}

RECURSIVE SeqsUpTo(_, _)
SeqsUpTo(S, n) ==
  IF n = 0 THEN {<<>>}
  ELSE LET shorter == SeqsUpTo(S, n - 1)
       IN shorter \cup { Append(q, x) : q \in shorter, x \in S }

Thresholds == {Rat(1, 100), Rat(1, 1), Rat(20, 1), Rat(61, 1)}
Couplings == {Rat(0, 1), Rat(1, 1)}

\* the lists of solver names without a repeated name, in every order
SolverLists ==
  { q \in SeqsUpTo(SolverNames, Cardinality(SolverNames)) :
      \A i, j \in 1..Len(q) : i # j => q[i] # q[j] }

Contexts ==
  [solverBTE : SolverLists,
   scatteringMatrixInMemory : BOOLEAN,
   numCalcs : 1..MaxCalcs,
   maxIterationsBTE : 0..MaxIterations,
   convergenceThresholdBTE : Thresholds,
   useSymmetries : BOOLEAN,
   coupling : Couplings]

NoContext ==
  [solverBTE |-> <<>>, scatteringMatrixInMemory |-> FALSE, numCalcs |-> 1,
   maxIterationsBTE |-> 0, convergenceThresholdBTE |-> Zero,
   useSymmetries |-> FALSE, coupling |-> Zero]

RunStart(p, ctx) ==
  /\ pc = p
  /\ context = ctx
  /\ errMessage = ""
  /\ calls = <<>>
  /\ out = <<>>
  /\ phononRelTimes = None /\ popRTA = None /\ phTCond = None /\ phTCondWigner = None
  /\ doIterative = FALSE /\ doVariational = FALSE /\ doRelaxons = FALSE
  /\ iter = 0
  /\ converged = {}
  /\ phTCondOld = None /\ sMatrixDiagonal = None /\ sMatrixDiagonalSqrt = None
  /\ fRTA = None /\ fOld = None /\ fNext = None
  /\ fNew = None /\ gOld = None /\ hOld = None /\ tOld = None

RunIdle == RunStart("idle", NoContext)

RunInit == \E ctx \in Contexts : RunStart("construct", ctx)

Printed(obj, value, it) == [op |-> "print", object |-> obj, file |-> "", value |-> value, iter |-> it]
Written(obj, value, name) == [op |-> "outputToJSON", object |-> obj, file |-> name, value |-> value, iter |-> -1]

\* lines 17-44: the inputs are read, the band structure and the scattering
\* matrix are constructed
Construct ==
  /\ pc = "construct"
  /\ pc' = "setup"
  /\ UNCHANGED <<context, errMessage, calls, out, phTCond, rtaVars, flagVars, iterVars,
                 cgVars, loopVars, otherVars>>

\* line 45
SetupSkipped ==
  /\ pc = "setup"
  /\ pc' = "rta"
  /\ UNCHANGED <<context, errMessage, calls, out, phTCond, rtaVars, flagVars, iterVars,
                 cgVars, loopVars, otherVars>>
Setup ==
  /\ pc = "setup"
  /\ calls' = Append(calls, "setup")
  /\ pc' = "rta"
  /\ UNCHANGED <<context, errMessage, out, phTCond, rtaVars, flagVars, iterVars,
                 cgVars, loopVars, otherVars>>

\* the file the Wigner thermal conductivity is written to, and from what
WignerOutput(tCond, tCondWigner) == Written("phTCond", tCond, "wigner_phonon_thermal_cond.json")

\* lines 51-96: the relaxation time approximation
SolveRTA ==
  /\ pc = "rta"
  /\ LET times == getSingleModeTimes(context)
         pop == VecMul(BulkTDrift(context), times)
         tCond == calcFromPopulation(pop)
         tCondWigner == wignerCalcFromPopulation(pop, times)
     IN /\ phononRelTimes' = times
        /\ popRTA' = pop
        /\ phTCond' = tCond
        /\ phTCondWigner' = tCondWigner
        /\ calls' = calls \o <<"getSingleModeTimes", "outputToJSON">>
        /\ out' = out \o
             << Written("scatteringMatrix", times, "rta_ph_relaxation_times.json"),
                Printed("phTCond", tCond, -1),
                Written("phTCond", tCond, "rta_phonon_thermal_cond.json"),
                Printed("phTCondWigner", tCondWigner, -1),
                WignerOutput(tCond, tCondWigner),
                Printed("phViscosity", times, -1),
                Written("phViscosity", times, "rta_phonon_viscosity.json"),
                Printed("specificHeat", None, -1),
                Written("specificHeat", None, "specific_heat.json") >>
  /\ pc' = "select"
  /\ UNCHANGED <<context, errMessage, flagVars, iterVars, cgVars, loopVars, otherVars>>

\* lines 100-112
RequestedFirst(solverBTE, name) == Len(solverBTE) > 0 /\ solverBTE[1] = name
Requested(solverBTE, name) == \E i \in 1..Len(solverBTE) : solverBTE[i] = name
SelectSolvers ==
  /\ pc = "select"
  /\ doIterative' = Requested(context.solverBTE, "iterative")
  /\ doVariational' = Requested(context.solverBTE, "variational")
  /\ doRelaxons' = Requested(context.solverBTE, "relaxons")
  /\ pc' = "validate"
  /\ UNCHANGED <<context, errMessage, calls, out, phTCond, rtaVars, iterVars,
                 cgVars, loopVars, otherVars>>

\* lines 114-122: the two tests of the input
RelaxonsNotInMemoryAlways(relaxons, inMemory) == FALSE
RelaxonsNotInMemory(relaxons, inMemory) == relaxons /\ ~inMemory
InMemoryManyCalcsTwo(inMemory, nCalcs) == inMemory /\ nCalcs > 2
InMemoryManyCalcs(inMemory, nCalcs) == inMemory /\ nCalcs # 1

Validate ==
  /\ pc = "validate"
  /\ IF RelaxonsNotInMemory(doRelaxons, context.scatteringMatrixInMemory)
       THEN LET e == Error("Relaxons require matrix kept in memory")
            IN pc' = e.pc /\ errMessage' = e.message
       ELSE IF InMemoryManyCalcs(context.scatteringMatrixInMemory, context.numCalcs)
         THEN LET e == Error("If scattering matrix is kept in memory, only one temperature/chemical potential is allowed in a run")
              IN pc' = e.pc /\ errMessage' = e.message
         ELSE pc' = "barrier" /\ errMessage' = errMessage
  /\ UNCHANGED <<context, calls, out, phTCond, rtaVars, flagVars, iterVars,
                 cgVars, loopVars, otherVars>>

\* line 124
Barrier ==
  /\ pc = "barrier"
  /\ pc' = "iterative"
  /\ UNCHANGED <<context, errMessage, calls, out, phTCond, rtaVars, flagVars, iterVars,
                 cgVars, loopVars, otherVars>>


\* ---- the iterative (Omini-Sparavigna) solver, lines 126-174

IterativeSkip ==
  /\ pc = "iterative" /\ ~doIterative
  /\ pc' = "variational"
  /\ UNCHANGED <<context, errMessage, calls, out, phTCond, rtaVars, flagVars, iterVars,
                 cgVars, loopVars, otherVars>>

\* lines 128-143
IterativeInit ==
  /\ pc = "iterative" /\ doIterative
  /\ phTCondOld' = phTCond
  /\ sMatrixDiagonal' = diagonal(context)
  /\ calls' = Append(calls, "diagonal")
  /\ fRTA' = population2Canonical(popRTA)
  /\ fOld' = population2Canonical(popRTA)
  /\ fNext' = [ic \in Calcs(context) |-> [is \in States |-> Zero]]
  /\ iter' = 0
  /\ pc' = "it_loop"
  /\ UNCHANGED <<context, errMessage, out, phTCond, rtaVars, flagVars, cgVars,
                 converged, otherVars>>

\* lines 147-148: the next population from the current one
IterativeNextFromRTA(ctx, rta, current, diag) ==
  VecSub(rta, VecDiv(offDiagonalDot(ctx, rta), diag))
IterativeNext(ctx, rta, current, diag) ==
  VecSub(rta, VecDiv(offDiagonalDot(ctx, current), diag))

\* lines 156 and 239: the exit condition
ConvergesAbove(tCond, tCondOld, threshold) ==
  RLess(threshold, DiffNormMaxCoeff(tCond, tCondOld))
Converges(tCond, tCondOld, threshold) ==
  RLess(DiffNormMaxCoeff(tCond, tCondOld), threshold)

\* lines 163 and 248: the iteration was the last one permitted
LastIteration(it, maxIterations) == it = maxIterations - 1

\* lines 145-166: one pass of the loop body
IterativeIterationBudgetFirst ==
  /\ pc = "it_loop" /\ iter < context.maxIterationsBTE
  /\ \E next \in {IterativeNext(context, fRTA, fOld, sMatrixDiagonal)} :
     \E tCond \in {calcFromCanonicalPopulation(next)} :
        /\ fNext' = next
        /\ calls' = Append(calls, "offDiagonalDot")
        /\ phTCond' = tCond
        /\ out' = Append(out, Printed("phTCond", tCond, iter))
        /\ IF LastIteration(iter, context.maxIterationsBTE)
             THEN /\ pc' = "error"
                  /\ errMessage' = "Reached max BTE iterations without convergence"
                  /\ UNCHANGED <<phTCondOld, fOld, iter, converged>>
             ELSE IF Converges(tCond, phTCondOld, context.convergenceThresholdBTE)
               THEN /\ converged' = converged \cup {"iterative"}
                    /\ pc' = "it_finish"
                    /\ UNCHANGED <<phTCondOld, fOld, iter, errMessage>>
               ELSE /\ phTCondOld' = tCond
                    /\ fOld' = next
                    /\ converged' = converged
                    /\ pc' = "it_loop" /\ iter' = iter + 1 /\ errMessage' = errMessage
  /\ UNCHANGED <<context, rtaVars, flagVars, fRTA, cgVars, sMatrixDiagonal, otherVars>>
IterativeIteration ==
  /\ pc = "it_loop" /\ iter < context.maxIterationsBTE
  /\ \E next \in {IterativeNext(context, fRTA, fOld, sMatrixDiagonal)} :
     \E tCond \in {calcFromCanonicalPopulation(next)} :
        /\ fNext' = next
        /\ calls' = Append(calls, "offDiagonalDot")
        /\ phTCond' = tCond
        /\ out' = Append(out, Printed("phTCond", tCond, iter))
        /\ IF Converges(tCond, phTCondOld, context.convergenceThresholdBTE)
             THEN \* break
                  /\ converged' = converged \cup {"iterative"}
                  /\ pc' = "it_finish"
                  /\ UNCHANGED <<phTCondOld, fOld, iter, errMessage>>
             ELSE /\ phTCondOld' = tCond
                  /\ fOld' = next
                  /\ converged' = converged
                  /\ IF LastIteration(iter, context.maxIterationsBTE)
                       THEN LET e == Error("Reached max BTE iterations without convergence")
                            IN pc' = e.pc /\ errMessage' = e.message /\ iter' = iter
                       ELSE pc' = "it_loop" /\ iter' = iter + 1 /\ errMessage' = errMessage
  /\ UNCHANGED <<context, rtaVars, flagVars, fRTA, cgVars, sMatrixDiagonal, otherVars>>

\* line 145: the loop condition fails
IterativeExit ==
  /\ pc = "it_loop" /\ ~(iter < context.maxIterationsBTE)
  /\ pc' = "it_finish"
  /\ UNCHANGED <<context, errMessage, calls, out, phTCond, rtaVars, flagVars, iterVars,
                 cgVars, loopVars, otherVars>>

\* lines 167-173
IterativeFinish ==
  /\ pc = "it_finish"
  /\ out' = out \o << Printed("phTCond", phTCond, -1),
                      Written("phTCond", phTCond, "omini_phonon_thermal_cond.json") >>
  /\ pc' = "variational"
  /\ UNCHANGED <<context, errMessage, calls, phTCond, rtaVars, flagVars, iterVars,
                 cgVars, loopVars, otherVars>>


\* ---- the variational (conjugate gradient) solver, lines 176-261

VariationalSkip ==
  /\ pc = "variational" /\ ~doVariational
  /\ pc' = "relaxons"
  /\ UNCHANGED <<context, errMessage, calls, out, phTCond, rtaVars, flagVars, iterVars,
                 cgVars, loopVars, otherVars>>

\* lines 177-211
VariationalInitUnscaled ==
  /\ pc = "variational" /\ doVariational
  /\ \E diagSqrt \in {VecSqrt(diagonal(context))} :
     \E diag \in {diagonal(context)} :
     \E f \in {VecMul(population2Canonical(popRTA), diagSqrt)} :
     \E g \in {VecSub(VecDiv(dot(context, f), diag), f)} :
     \E h \in {VecNeg(g)} :
        /\ phTCondOld' = phTCond
        /\ sMatrixDiagonalSqrt' = diagSqrt
        /\ sMatrixDiagonal' = diag
        /\ fNew' = f
        /\ fOld' = f
        /\ gOld' = g
        /\ hOld' = h
        /\ tOld' = dot(context, h)
  /\ calls' = calls \o <<"diagonal", "diagonal", "dot", "dot">>
  /\ iter' = 0
  /\ pc' = "cg_loop"
  /\ UNCHANGED <<context, errMessage, out, phTCond, rtaVars, flagVars, iterVars,
                 converged, otherVars>>
VariationalInit ==
  /\ pc = "variational" /\ doVariational
  /\ \E diagSqrt \in {VecSqrt(diagonal(context))} :
     \E diag \in {diagonal(context)} :
     \E f \in {VecMul(population2Canonical(popRTA), diagSqrt)} :
     \E g \in {VecSub(VecDiv(dot(context, f), diag), f)} :
     \E h \in {VecNeg(g)} :
        /\ phTCondOld' = phTCond
        /\ sMatrixDiagonalSqrt' = diagSqrt
        /\ sMatrixDiagonal' = diag
        /\ fNew' = f
        /\ fOld' = f
        /\ gOld' = g
        /\ hOld' = h
        /\ tOld' = VecDiv(dot(context, h), diag)
  /\ calls' = calls \o <<"diagonal", "diagonal", "dot", "dot">>
  /\ iter' = 0
  /\ pc' = "cg_loop"
  /\ UNCHANGED <<context, errMessage, out, phTCond, rtaVars, flagVars, iterVars,
                 converged, otherVars>>

\* lines 213-251: one pass of the loop body
VariationalIteration ==
  /\ pc = "cg_loop" /\ iter < context.maxIterationsBTE
  /\ \E alpha \in {ArrDiv(VecDot(gOld, hOld), VecDot(hOld, tOld))} :
     \E f \in {VecSub(fOld, VecScale(hOld, alpha))} :
     \E gNew \in {VecSub(gOld, VecScale(tOld, alpha))} :
     \E beta \in {ArrDiv(VecDot(gNew, gNew), VecDot(gOld, gOld))} :
     \E hNew \in {VecAdd(VecNeg(gNew), VecScale(hOld, beta))} :
     \E outVectors \in {<<dot(context, f), dot(context, hNew)>>} :
     \E tCond \in {calcVariational(outVectors[1], f, sMatrixDiagonalSqrt)} :
        /\ fNew' = f
        /\ calls' = Append(calls, "dot")
        /\ tOld' = VecDiv(outVectors[2], sMatrixDiagonal)
        /\ phTCond' = tCond
        /\ out' = Append(out, Printed("phTCond", tCond, iter))
        /\ IF Converges(tCond, phTCondOld, context.convergenceThresholdBTE)
             THEN \* break
                  /\ converged' = converged \cup {"variational"}
                  /\ pc' = "cg_finish"
                  /\ UNCHANGED <<phTCondOld, fOld, gOld, hOld, iter, errMessage>>
             ELSE /\ phTCondOld' = tCond
                  /\ fOld' = f
                  /\ gOld' = gNew
                  /\ hOld' = hNew
                  /\ converged' = converged
                  /\ IF LastIteration(iter, context.maxIterationsBTE)
                       THEN LET e == Error("Reached max BTE iterations without convergence")
                            IN pc' = e.pc /\ errMessage' = e.message /\ iter' = iter
                       ELSE pc' = "cg_loop" /\ iter' = iter + 1 /\ errMessage' = errMessage
  /\ UNCHANGED <<context, rtaVars, flagVars, iterVars, sMatrixDiagonalSqrt,
                 sMatrixDiagonal, otherVars>>

\* line 213: the loop condition fails
VariationalExit ==
  /\ pc = "cg_loop" /\ ~(iter < context.maxIterationsBTE)
  /\ pc' = "cg_finish"
  /\ UNCHANGED <<context, errMessage, calls, out, phTCond, rtaVars, flagVars, iterVars,
                 cgVars, loopVars, otherVars>>

\* lines 253-260
VariationalFinish ==
  /\ pc = "cg_finish"
  /\ out' = out \o << Printed("phTCond", phTCond, -1),
                      Written("phTCond", phTCond, "variational_phonon_thermal_cond.json") >>
  /\ pc' = "relaxons"
  /\ UNCHANGED <<context, errMessage, calls, phTCond, rtaVars, flagVars, iterVars,
                 cgVars, loopVars, otherVars>>

\* ---- the relaxons solver, lines 263-293

\* the calls of line 267 and line 268, in the order the code makes them
RelaxonsCallsSwapped == <<"diagonalize", "a2Omega">>
RelaxonsCalls == <<"a2Omega", "diagonalize">>

RelaxonsSkip ==
  /\ pc = "relaxons" /\ ~doRelaxons
  /\ pc' = "final_barrier"
  /\ UNCHANGED <<context, errMessage, calls, out, phTCond, rtaVars, flagVars, iterVars,
                 cgVars, loopVars, otherVars>>

\* line 267
RelaxonsA2Omega ==
  /\ pc = "relaxons" /\ doRelaxons
  /\ calls' = Append(calls, RelaxonsCalls[1])
  /\ pc' = "rx_diagonalize"
  /\ UNCHANGED <<context, errMessage, out, phTCond, rtaVars, flagVars, iterVars,
                 cgVars, loopVars, otherVars>>

\* lines 268-270
RelaxonsDiagonalize ==
  /\ pc = "rx_diagonalize"
  /\ calls' = Append(calls, RelaxonsCalls[2])
  /\ pc' = "rx_output"
  /\ UNCHANGED <<context, errMessage, out, phTCond, rtaVars, flagVars, iterVars,
                 cgVars, loopVars, otherVars>>

\* lines 274-292
RelaxonsOutputThenIterative ==
  /\ pc = "rx_output"
  /\ phTCond' = calcFromRelaxons(context, popRTA)
  /\ out' = Append(out, Written("phTCond", phTCond', "relaxons_phonon_thermal_cond.json"))
  /\ calls' = Append(calls, "outputToJSON")
  /\ pc' = "iterative"
  /\ UNCHANGED <<context, errMessage, rtaVars, flagVars, iterVars,
                 cgVars, loopVars, otherVars>>
RelaxonsOutput ==
  /\ pc = "rx_output"
  /\ LET tCond == calcFromRelaxons(context, popRTA)
     IN /\ phTCond' = tCond
        /\ out' = out \o
             << Printed("phTCond", tCond, -1),
                Written("phTCond", tCond, "relaxons_phonon_thermal_cond.json"),
                Written("scatteringMatrix", None, "relaxons_relaxation_times.json") >>
             \o (IF ~context.useSymmetries
                   THEN << Printed("phViscosity", None, -1),
                           Written("phViscosity", None, "relaxons_phonon_viscosity.json") >>
                   ELSE <<>>)
  /\ calls' = Append(calls, "outputToJSON")
  /\ pc' = "final_barrier"
  /\ UNCHANGED <<context, errMessage, rtaVars, flagVars, iterVars,
                 cgVars, loopVars, otherVars>>

\* line 294
FinalBarrier ==
  /\ pc = "final_barrier"
  /\ pc' = "done"
  /\ UNCHANGED <<context, errMessage, calls, out, phTCond, rtaVars, flagVars, iterVars,
                 cgVars, loopVars, otherVars>>

Next ==
  \/ Construct
  \/ Setup
  \/ SolveRTA
  \/ SelectSolvers
  \/ Validate
  \/ Barrier
  \/ IterativeSkip
  \/ IterativeInit
  \/ IterativeIteration
  \/ IterativeExit
  \/ IterativeFinish
  \/ VariationalSkip
  \/ VariationalInit
  \/ VariationalIteration
  \/ VariationalExit
  \/ VariationalFinish
  \/ RelaxonsSkip
  \/ RelaxonsA2Omega
  \/ RelaxonsDiagonalize
  \/ RelaxonsOutput
  \/ FinalBarrier


\* ------------------------------------------------------------------ ElPhQeToPhoebeApp

\* The routines of the app run on every process of the communicator, each
\* process with its own memory.  A routine is the list of its steps that touch
\* the data shared through MPI, in the order of the source.

Step(op, var, line) == [op |-> op, var |-> var, line |-> line]

\* blochToWannier, lines 178-408.  The two matrices named phases (lines 263
\* and 363) are phasesEl and phasesPh here.
BlochToWannier ==
  << Step("setZero", "gFullTmp", 180),
     Step("fill", "gFullTmp", 182),
     Step("allReduceSum", "gFullTmp", 251),
     Step("setZero", "gMixed", 260),
     Step("setZero", "phasesEl", 264),
     Step("fill", "phasesEl", 266),
     Step("allReduceSum", "phasesEl", 274),
     Step("fill", "gMixed", 276),
     Step("allReduceSum", "gMixed", 306),
     Step("setZero", "gWannierTmp", 315),
     Step("setZero", "uQM1s", 318),
     Step("fill", "uQM1s", 319),
     Step("allReduceSum", "uQM1s", 335),
     Step("fill", "gWannierTmp", 336),
     Step("allReduceSum", "gWannierTmp", 351),
     Step("setZero", "gWannier", 361),
     Step("setZero", "phasesPh", 364),
     Step("fill", "phasesPh", 366),
     Step("allReduceSum", "phasesPh", 374),
     Step("fill", "gWannier", 376),
     Step("allReduceSum", "gWannier", 406) >>

\* epaPostProcessing, lines 945-985
EpaPostProcessing ==
  << Step("setZero", "g2Epa", 946),
     Step("fill", "g2Epa", 949),
     Step("allReduceSum", "g2Epa", 984) >>

\* readQEPhoebeHeader, lines 764-857: the head process reads the file, the
\* values are broadcast, the other processes size the three matrices first
ReadQEPhoebeHeader ==
  << Step("read", "", 783),
     Step("bcast", "numQEBands", 837),
     Step("bcast", "numElectrons", 838),
     Step("bcast", "numSpin", 839),
     Step("bcast", "kMesh", 840),
     Step("bcast", "qMesh", 841),
     Step("bcast", "numAtoms", 842),
     Step("bcast", "numKPoints", 843),
     Step("bcast", "numQPoints", 844),
     Step("bcast", "numIrrQPoints", 845),
     Step("resize", "", 846),
     Step("bcast", "qGridFull", 851),
     Step("bcast", "kGridFull", 852),
     Step("bcast", "energies", 853) >>

\* readGFromQEFile, lines 638-761
ReadGFromQEFile ==
  << Step("setZero", "g_full", 644),
     Step("setZero", "phEigenvectors", 645),
     Step("setZero", "phEnergies", 646),
     Step("read", "", 648),
     Step("bcast", "g_full", 757),
     Step("bcast", "phEigenvectors", 758),
     Step("bcast", "phEnergies", 759) >>

ProgramWithoutReduce(routine) ==
  CASE routine = "blochToWannier" ->
         SelectSeq(BlochToWannier, LAMBDA st : st.line # 351)
    [] routine = "epaPostProcessing" -> EpaPostProcessing
    [] routine = "readQEPhoebeHeader" -> ReadQEPhoebeHeader
    [] routine = "readGFromQEFile" -> ReadGFromQEFile
ProgramWithoutResize(routine) ==
  CASE routine = "blochToWannier" -> BlochToWannier
    [] routine = "epaPostProcessing" -> EpaPostProcessing
    [] routine = "readQEPhoebeHeader" ->
         SelectSeq(ReadQEPhoebeHeader, LAMBDA st : st.op # "resize")
    [] routine = "readGFromQEFile" -> ReadGFromQEFile
Program(routine) ==
  CASE routine = "blochToWannier" -> BlochToWannier
    [] routine = "epaPostProcessing" -> EpaPostProcessing
    [] routine = "readQEPhoebeHeader" -> ReadQEPhoebeHeader
    [] routine = "readGFromQEFile" -> ReadGFromQEFile

\* ---- the tensors, with the indices over k points, q points and lattice
\* vectors; one band, one Wannier function, one mode, one energy bin

Dims(var, in) ==
  CASE var = "gFullTmp" -> <<in.numKPoints, in.numQPoints>>
    [] var = "phasesEl" -> <<in.numKPoints, in.numElBravaisVectors>>
    [] var = "gMixed" -> <<in.numElBravaisVectors, in.numQPoints>>
    [] var = "uQM1s" -> <<1, in.numQPoints>>
    [] var = "gWannierTmp" -> <<in.numElBravaisVectors, in.numQPoints>>
    [] var = "phasesPh" -> <<in.numPhBravaisVectors, in.numQPoints>>
    [] var = "gWannier" -> <<in.numPhBravaisVectors, in.numElBravaisVectors>>
    [] var = "g2Epa" -> <<1, 1>>
    \* readQEPhoebeHeader: numbers, two Vector3i, three MatrixXd without a size
    [] var \in {"kMesh", "qMesh"} -> <<1, 3>>
    [] var \in {"qGridFull", "kGridFull", "energies"} -> <<0, 0>>
    \* readGFromQEFile: sized from the arguments
    [] var = "g_full" -> <<in.numKPoints, in.numQPoints>>
    [] var \in {"phEigenvectors", "phEnergies"} -> <<1, in.numQPoints>>
    [] OTHER -> <<1, 1>>

Rows(dims) == 0..(dims[1] - 1)
Cols(dims) == 0..(dims[2] - 1)
\* the tensor of the elements f[a, b]
Tensor(dims, f) == [a \in Rows(dims) |-> [b \in Cols(dims) |-> f[a, b]]]
\* the tensor with every element c
Filled(dims, c) == [a \in Rows(dims) |-> [b \in Cols(dims) |-> c]]

\* Eigen::Tensor<...> t(dims): the elements hold what the memory held
Declared(var, in) == Filled(Dims(var, in), in.garbage)
\* t.setZero()
setZero(var, in) == Filled(Dims(var, in), 0)

\* f[0] + ... + f[n-1]
RECURSIVE Sum(_, _)
Sum(f, n) == IF n = 0 THEN 0 ELSE f[n - 1] + Sum(f, n - 1)

\* the data the routines are handed: the coupling in the Bloch gauge, the
\* Wannier rotations, the phonon eigenvectors, the phases
GFull(ik, iq) == ik + 2 * iq + 1
UMatrices(ik) == ik + 1
PhaseFactor(i, j) == i + j + 1
UQInverse(iq) == iq + 2
Gaussian(ik, ikq) == ik + ikq + 1

\* the number of tasks of the loop that fills var: the argument of
\* divideWorkIter
LoopCount(var, in) ==
  CASE var = "phasesEl" -> in.numKPoints
    [] var = "gWannier" -> in.numElBravaisVectors
    [] OTHER -> in.numQPoints

\* iteration i of the loop writes element (a, b)
Touches(var, a, b, i) ==
  CASE var = "phasesEl" -> a = i
    [] var = "g2Epa" -> TRUE
    [] OTHER -> b = i

\* the loop adds to the element (+=), or assigns it (=)
Accumulates(var) == var \notin {"phasesEl", "phasesPh", "uQM1s"}

\* the tensors the loop body reads
Reads(var) ==
  CASE var = "gMixed" -> {"gFullTmp", "phasesEl"}
    [] var = "gWannierTmp" -> {"gMixed", "uQM1s"}
    [] var = "gWannier" -> {"phasesPh", "gWannierTmp"}
    [] OTHER -> {}

\* what iteration i of the loop adds to (or assigns to) element (a, b)
Term(var, a, b, i, val, in) ==
  CASE var = "gFullTmp" ->      \* lines 199-243, ikq the index of k + q
         UMatrices((a + i) % in.numKPoints) * GFull(a, i) * UMatrices(a)
    [] var = "phasesEl" -> PhaseFactor(a, b)                   \* line 271
    [] var = "gMixed" ->                                        \* lines 282-299
         Sum([ik \in 0..(in.numKPoints - 1) |->
                val["gFullTmp"][ik][i] * val["phasesEl"][ik][a]], in.numKPoints)
    [] var = "uQM1s" -> UQInverse(i)                            \* lines 320-329
    [] var = "gWannierTmp" ->                                   \* line 343
         val["gMixed"][a][i] * val["uQM1s"][0][i]
    [] var = "phasesPh" -> PhaseFactor(a, b)                   \* line 371
    [] var = "gWannier" ->                                      \* lines 382-399
         Sum([iq \in 0..(in.numQPoints - 1) |->
                val["phasesPh"][a][iq] * val["gWannierTmp"][i][iq]], in.numQPoints)
    [] var = "g2Epa" ->                                         \* lines 953-973
         Sum([ik \in 0..(in.numKPoints - 1) |->
                GFull(ik, i) * GFull(ik, i) * Gaussian(ik, (ik + i) % in.numKPoints)],
             in.numKPoints)

\* mpi->divideWorkIter(n): the task indices of the calling process
divideWorkIter(n, r, sz) ==
  { i \in 0..(n - 1) : workDivisionHead(n, r, sz) <= i /\ i < workDivisionTail(n, r, sz) }

\* for (int i : range) { ... }: the tensor after the loop
Fill(var, range, val, in) ==
  LET n == LoopCount(var, in)
  IN Tensor(Dims(var, in),
       [a \in Rows(Dims(var, in)), b \in Cols(Dims(var, in)) |->
         LET terms == [i \in 0..(n - 1) |->
                         IF i \in range /\ Touches(var, a, b, i)
                           THEN Term(var, a, b, i, val, in) ELSE 0]
         IN IF \A i \in range : ~Touches(var, a, b, i) THEN val[var][a][b]
            ELSE IF Accumulates(var) THEN val[var][a][b] + Sum(terms, n)
            ELSE Sum(terms, n)])

\* mpi->allReduceSum(&t): the sum over the processes, element by element;
\* parts is rank -> tensor
allReduceSum(var, parts, in) ==
  IF in.numProcs = 1 THEN parts[0]
  ELSE Tensor(Dims(var, in),
         [a \in Rows(Dims(var, in)), b \in Cols(Dims(var, in)) |->
            Sum([r \in 0..(in.numProcs - 1) |-> parts[r][a][b]], in.numProcs)])

\* ---- the files and the broadcasts

\* the sizes of the values in the file
FileDims(var, in) ==
  CASE var = "qGridFull" -> <<3, in.numQPoints>>
    [] var = "kGridFull" -> <<3, in.numKPoints>>
    [] var = "energies" -> <<in.numQEBands, in.numKPoints>>
    [] OTHER -> Dims(var, in)

\* the values in the file
FileContent(var, a, b, in) ==
  CASE var = "numQEBands" -> in.numQEBands
    [] var = "numKPoints" -> in.numKPoints
    [] var = "numQPoints" -> in.numQPoints
    [] var = "numElectrons" -> 8
    [] var = "numSpin" -> 1
    [] var = "numAtoms" -> 2
    [] var = "numIrrQPoints" -> 1
    [] var = "kMesh" -> 2 + b
    [] var = "qMesh" -> 5 + b
    [] var = "qGridFull" -> 10 + 3 * b + a
    [] var = "kGridFull" -> 20 + 3 * b + a
    [] var = "energies" -> 30 + 3 * b + a
    [] var = "g_full" -> 40 + 3 * b + a
    [] var = "phEigenvectors" -> 50 + b
    [] var = "phEnergies" -> 60 + b

FileValue(var, in) ==
  Tensor(FileDims(var, in),
         [a \in Rows(FileDims(var, in)), b \in Cols(FileDims(var, in)) |->
            FileContent(var, a, b, in)])

\* the block under if (mpi->mpiHead()): every variable is set from the file
FileRead(val, in) == [v \in DOMAIN val |-> FileValue(v, in)]

\* lines 847-849: the matrices are sized with the numbers received
ResizeDims(var, val) ==
  CASE var = "qGridFull" -> <<3, val["numQPoints"][0][0]>>
    [] var = "kGridFull" -> <<3, val["numKPoints"][0][0]>>
    [] var = "energies" -> <<val["numQEBands"][0][0], val["numKPoints"][0][0]>>
Resized(val, in) ==
  [v \in DOMAIN val |->
     IF v \in {"qGridFull", "kGridFull", "energies"}
       THEN Filled(ResizeDims(v, val), in.garbage)
       ELSE val[v]]

SameShape(t, u) ==
  /\ DOMAIN t = DOMAIN u
  /\ \A a \in DOMAIN t : DOMAIN t[a] = DOMAIN u[a]
\* what a receive buffer of another size than the message is left with
Mismatch == Filled(<<1, 1>>, -1)
\* mpi->bcast(&x): the value of the head process, in a buffer of its size
bcast(root, own) == IF SameShape(root, own) THEN root ELSE Mismatch

\* ---- the processes

Ranks(in) == 0..(in.numProcs - 1)
TensorNames(routine) ==
  { Program(routine)[k].var : k \in 1..Len(Program(routine)) } \ {""}
\* what the memory of an uninitialized tensor can hold
Garbage == {0, 7}

AppInputs(routine) ==
  CASE routine = "blochToWannier" ->
         [numProcs : 1..MaxProcs, numKPoints : 1..MaxPoints, numQPoints : 1..MaxPoints,
          numElBravaisVectors : 1..MaxPoints, numPhBravaisVectors : 1..MaxPoints,
          garbage : Garbage]
    [] routine = "epaPostProcessing" ->
         [numProcs : 1..MaxProcs, numKPoints : 1..MaxPoints, numQPoints : 1..MaxPoints,
          numElBravaisVectors : {1}, numPhBravaisVectors : {1}, garbage : Garbage]
    [] routine = "readQEPhoebeHeader" ->
         [numProcs : 1..MaxProcs, numKPoints : 1..MaxPoints, numQPoints : 1..MaxPoints,
          numQEBands : 1..MaxPoints, fileFound : BOOLEAN, garbage : Garbage]
    [] routine = "readGFromQEFile" ->
         [numProcs : 1..MaxProcs, numKPoints : 1..MaxPoints, numQPoints : 1..MaxPoints,
          garbage : Garbage]

Routines == {"blochToWannier", "epaPostProcessing", "readQEPhoebeHeader", "readGFromQEFile"}

AppIdle ==
  /\ appPc = "idle"
  /\ appIn = <<>>
  /\ procPc = <<>>
  /\ mem = <<>>

\* the routine is entered by every process; its tensors are declared, not
\* yet set
AppInit ==
  \E routine \in Routines : \E in \in AppInputs(routine) :
    /\ appPc = routine
    /\ appIn = in
    /\ procPc = [r \in Ranks(in) |-> 1]
    /\ mem = [r \in Ranks(in) |->
                [val |-> [v \in TensorNames(routine) |-> Declared(v, in)],
                 part |-> [v \in TensorNames(routine) |-> Declared(v, in)],
                 zeroed |-> {},
                 reduced |-> {},
                 hasRead |-> FALSE]]

\* process r executes a step of its own: setZero, a loop over its tasks, the
\* reading of the file (head process) or the sizing of the buffers (others);
\* procPc 0 is a process ended by an Error
AppLocal(r) ==
  /\ appPc # "idle"
  /\ procPc[r] \in 1..Len(Program(appPc))
  /\ LET st == Program(appPc)[procPc[r]]
         mpiHead == r = 0
         notFound == st.op = "read" /\ mpiHead /\ appPc = "readQEPhoebeHeader"
                       /\ ~appIn.fileFound
     IN /\ st.op \in {"setZero", "fill", "read", "resize"}
        /\ mem' = [mem EXCEPT ![r] =
             CASE st.op = "setZero" ->
                    [@ EXCEPT !.val[st.var] = setZero(st.var, appIn),
                              !.zeroed = @ \cup {st.var}]
               [] st.op = "fill" ->
                    [@ EXCEPT !.val[st.var] =
                       Fill(st.var,
                            divideWorkIter(LoopCount(st.var, appIn), r, appIn.numProcs),
                            mem[r].val, appIn)]
               [] st.op = "read" ->
                    IF mpiHead /\ ~notFound
                      THEN [@ EXCEPT !.val = FileRead(mem[r].val, appIn), !.hasRead = TRUE]
                      ELSE @
               [] st.op = "resize" ->
                    IF ~mpiHead THEN [@ EXCEPT !.val = Resized(mem[r].val, appIn)] ELSE @]
        /\ IF notFound
             THEN LET e == Error("QE el-ph file not found")
                  IN errMessage' = e.message /\ procPc' = [procPc EXCEPT ![r] = 0]
             ELSE errMessage' = errMessage /\ procPc' = [procPc EXCEPT ![r] = @ + 1]
  /\ UNCHANGED <<appPc, appIn, mpiVars, matVars, runVars, partVars>>

\* mpi->allReduceSum(&t): every process has reached the call; each gets the sum
AppAllReduceSum ==
  /\ appPc # "idle"
  /\ \E k \in 1..Len(Program(appPc)) :
       /\ \A r \in Ranks(appIn) : procPc[r] = k
       /\ Program(appPc)[k].op = "allReduceSum"
       /\ \E var \in {Program(appPc)[k].var} :
          \E total \in {allReduceSum(var, [r \in Ranks(appIn) |-> mem[r].val[var]], appIn)} :
            mem' = [r \in Ranks(appIn) |->
                      [mem[r] EXCEPT !.val[var] = total,
                                     !.part[var] = mem[r].val[var],
                                     !.reduced = @ \cup {var}]]
       /\ procPc' = [r \in Ranks(appIn) |-> k + 1]
  /\ UNCHANGED <<appPc, appIn, errMessage, mpiVars, matVars, runVars, partVars>>

\* mpi->bcast(&x): every process has reached the call; each gets the value
\* of the head process
AppBcast ==
  /\ appPc # "idle"
  /\ \E k \in 1..Len(Program(appPc)) :
       /\ \A r \in Ranks(appIn) : procPc[r] = k
       /\ Program(appPc)[k].op = "bcast"
       /\ \E var \in {Program(appPc)[k].var} :
            mem' = [r \in Ranks(appIn) |->
                      [mem[r] EXCEPT !.val[var] = bcast(mem[0].val[var], mem[r].val[var])]]
       /\ procPc' = [r \in Ranks(appIn) |-> k + 1]
  /\ UNCHANGED <<appPc, appIn, errMessage, mpiVars, matVars, runVars, partVars>>

NextApp ==
  \/ \E r \in DOMAIN procPc : AppLocal(r)
  \/ AppAllReduceSum
  \/ AppBcast


\* ------------------------------------------------------------------ the OpenMP region

\* Lines 208-248 of blochToWannier, for one pair (ik, iq): a team of threads,
\* each with its own tmp and tmp2; two work-shared loops without a barrier
\* after them (nowait); a critical section that adds tmp2 to gFullTmp.

\* collapse(4): the four loops are one loop over the tuples, in this order
FirstLoop(in) ==
  [nu : 0..(in.numModes - 1), i : 0..(in.numWannier - 1),
   j : 0..(in.numBands - 1), l : 0..(in.numBands - 1)]
SecondLoop(in) ==
  [nu : 0..(in.numModes - 1), i : 0..(in.numWannier - 1),
   j : 0..(in.numWannier - 1), l : 0..(in.numBands - 1)]
FirstLoopIndex(it, in) == ((it.nu * in.numWannier + it.i) * in.numBands + it.j) * in.numBands + it.l
SecondLoopIndex(it, in) == ((it.nu * in.numWannier + it.i) * in.numWannier + it.j) * in.numBands + it.l

\* how a work-shared loop of n iterations is handed to the threads: blocks
\* of consecutive iterations with the boundary anywhere, or one by one in turn
Schedules(n, threads) ==
  IF threads = 1 THEN {[kind |-> "block", cut |-> n]}
  ELSE [kind : {"block"}, cut : 0..n] \cup {[kind |-> "cyclic", cut |-> 0]}
Owner(schedule, k, threads) ==
  IF schedule.kind = "block" THEN (IF k < schedule.cut THEN 0 ELSE 1)
  ELSE k % threads

\* the rotations and the coupling of the pair (ik, iq)
UK(l, i) == 1 + l + 2 * i
UKq(l, i) == 2 + l + i
UKDagger(j, l) == UK(l, j)
GFullKQ(l, lp, nu) == 1 + l + 2 * lp + nu

Teams ==
  { in \in [numBands : 1..MaxBands, numWannier : 1..MaxBands, numModes : {1},
            numThreads : 1..MaxThreads] : in.numWannier <= in.numBands }

TmpDims(in) ==
  (0..(in.numWannier - 1)) \X (0..(in.numBands - 1)) \X (0..(in.numModes - 1))
Tmp2Dims(in) ==
  (0..(in.numWannier - 1)) \X (0..(in.numWannier - 1)) \X (0..(in.numModes - 1))

\* the sum of f over the set S
RECURSIVE SumOver(_, _)
SumOver(S, f) ==
  IF S = {} THEN 0 ELSE LET x == CHOOSE y \in S : TRUE IN f[x] + SumOver(S \ {x}, f)

OmpIdle ==
  /\ team = <<>>
  /\ teamPc = <<>>
  /\ tmp = <<>>
  /\ tmp2 = <<>>
  /\ gFullTmpKQ = <<>>

\* the threads enter the region; gFullTmp was set to zero at line 180
OmpInit ==
  \E in \in Teams :
  \E s1 \in Schedules(Cardinality(FirstLoop(in)), in.numThreads) :
  \E s2 \in Schedules(Cardinality(SecondLoop(in)), in.numThreads) :
    /\ team = [in |-> in, first |-> s1, second |-> s2]
    /\ teamPc = [t \in 0..(in.numThreads - 1) |-> "first"]
    /\ tmp = [t \in 0..(in.numThreads - 1) |-> [e \in TmpDims(in) |-> 0]]
    /\ tmp2 = [t \in 0..(in.numThreads - 1) |-> [e \in Tmp2Dims(in) |-> 0]]
    /\ gFullTmpKQ = [e \in Tmp2Dims(in) |-> 0]

\* lines 210-224: tmp.setZero(); thread t runs its iterations of the first
\* loop: tmp(i, j, nu) += uKq(l, i) * gFull(l, j, nu, ik, iq)
OmpFirst(t) ==
  /\ teamPc[t] = "first"
  /\ LET in == team.in
         mine == { it \in FirstLoop(in) :
                     Owner(team.first, FirstLoopIndex(it, in), in.numThreads) = t }
     IN tmp' = [tmp EXCEPT ![t] =
                  [e \in TmpDims(in) |->
                     SumOver({ it \in mine : it.i = e[1] /\ it.j = e[2] /\ it.nu = e[3] },
                             [it \in mine |-> UKq(it.l, it.i) * GFullKQ(it.l, it.j, it.nu)])]]
  /\ teamPc' = [teamPc EXCEPT ![t] = "second"]
  /\ UNCHANGED <<team, tmp2, gFullTmpKQ>>
  /\ UNCHANGED <<errMessage, mpiVars, matVars, runVars, appVars, offsetVars, bandVars, hdf5Vars>>

\* lines 225-237: tmp2.setZero(); thread t runs its iterations of the second
\* loop, reading its own tmp: tmp2(i, j, nu) += tmp(i, l, nu) * uKDagger(j, l)
OmpSecond(t) ==
  /\ teamPc[t] = "second"
  /\ LET in == team.in
         mine == { it \in SecondLoop(in) :
                     Owner(team.second, SecondLoopIndex(it, in), in.numThreads) = t }
     IN tmp2' = [tmp2 EXCEPT ![t] =
                   [e \in Tmp2Dims(in) |->
                      SumOver({ it \in mine : it.i = e[1] /\ it.j = e[2] /\ it.nu = e[3] },
                              [it \in mine |->
                                 tmp[t][<<it.i, it.l, it.nu>>] * UKDagger(it.j, it.l)])]]
  /\ teamPc' = [teamPc EXCEPT ![t] = "critical"]
  /\ UNCHANGED <<team, tmp, gFullTmpKQ>>
  /\ UNCHANGED <<errMessage, mpiVars, matVars, runVars, appVars, offsetVars, bandVars, hdf5Vars>>

\* lines 239-246, one thread at a time: gFullTmp(i, j, nu, ik, iq) += tmp2(i, j, nu)
OmpCritical(t) ==
  /\ teamPc[t] = "critical"
  /\ gFullTmpKQ' = [e \in Tmp2Dims(team.in) |-> gFullTmpKQ[e] + tmp2[t][e]]
  /\ teamPc' = [teamPc EXCEPT ![t] = "done"]
  /\ UNCHANGED <<team, tmp, tmp2>>
  /\ UNCHANGED <<errMessage, mpiVars, matVars, runVars, appVars, offsetVars, bandVars, hdf5Vars>>

NextOmp ==
  \E t \in DOMAIN teamPc :
    \/ OmpFirst(t)
    \/ OmpSecond(t)
    \/ OmpCritical(t)

\* ------------------------------------------------------------------ computeOffset

\* Lines 544-609: the bands of the Wannier calculation are a window of the
\* bands of the ab-initio calculation; the function looks for the first band
\* of the window by comparing the energies at k = 0.

Energies == 0..2

\* the vectors of the lengths 1..n over S
VectorsUpTo(S, n) == UNION { [1..k -> S] : k \in 1..n }

\* x^2 of pow(x, 2)
Pow2(x) == x * x

\* v.minCoeff()
MinCoeff(v) == CHOOSE m \in { v[k] : k \in DOMAIN v } : \A k \in DOMAIN v : m <= v[k]

OffsetIdle ==
  /\ offsetPc = "idle"
  /\ energiesQEAtZero = <<>>
  /\ energiesWannierAtZero = <<>>
  /\ difference = <<>>
  /\ loopAt = <<0, 0>>
  /\ offset = -1
  /\ reads = {}

\* lines 581-587: the two vectors are read, difference is sized and zeroed;
\* possibleValues is not negative here
OffsetInit ==
  \E qe \in VectorsUpTo(Energies, MaxBands) :
  \E wannier \in VectorsUpTo(Energies, MaxBands) :
    /\ Len(qe) - Len(wannier) + 1 >= 0
    /\ offsetPc = "differences"
    /\ energiesQEAtZero = qe
    /\ energiesWannierAtZero = wannier
    /\ difference = [k \in 1..(Len(qe) - Len(wannier) + 1) |-> 0]
    /\ loopAt = <<0, 0>>
    /\ offset = -1
    /\ reads = {}

numBandsWannier == Len(energiesWannierAtZero)
numFull == Len(energiesQEAtZero)
possibleValues == numFull - numBandsWannier + 1

\* what a read of v at the 0-based index k gives: the element, or, past the
\* end of a std::vector, whatever the memory holds
ReadAt(v, k) == IF k < Len(v) THEN {v[k + 1]} ELSE Garbage

\* lines 588-593, one pass of the inner loop:
\* difference(i) = pow(energiesQEAtZero(ib) - energiesWannierAtZero[ib + i], 2)
OffsetDifference ==
  /\ offsetPc = "differences"
  /\ loopAt[1] < possibleValues
  /\ LET i == loopAt[1]
         ib == loopAt[2]
     IN /\ \E q \in ReadAt(energiesQEAtZero, ib) :
           \E w \in ReadAt(energiesWannierAtZero, ib + i) :
             difference' = [difference EXCEPT ![i + 1] = Pow2(q - w)]
        /\ reads' = reads \cup
                      {[array |-> "energiesQEAtZero", index |-> ib, size |-> numFull],
                       [array |-> "energiesWannierAtZero", index |-> ib + i,
                        size |-> numBandsWannier]}
        /\ loopAt' = IF ib + 1 < numBandsWannier THEN <<i, ib + 1>> ELSE <<i + 1, 0>>
  /\ UNCHANGED <<offsetPc, energiesQEAtZero, energiesWannierAtZero, offset>>
  /\ UNCHANGED <<errMessage, mpiVars, matVars, runVars, appVars, ompVars, bandVars, hdf5Vars>>

\* the first index of difference with the smallest value, or -1
FirstMinimum(v) ==
  IF v = <<>> THEN -1
  ELSE (CHOOSE k \in DOMAIN v :
          /\ v[k] = MinCoeff(v)
          /\ \A h \in DOMAIN v : h < k => v[h] # MinCoeff(v)) - 1

\* lines 595-608: the search for the smallest difference, the error, the return
OffsetSearch ==
  /\ offsetPc = "differences"
  /\ ~(loopAt[1] < possibleValues)
  /\ offset' = FirstMinimum(difference)
  /\ IF offset' = -1
       THEN LET e == Error("Bands offset not found")
            IN offsetPc' = e.pc /\ errMessage' = e.message
       ELSE offsetPc' = "returned" /\ errMessage' = errMessage
  /\ UNCHANGED <<energiesQEAtZero, energiesWannierAtZero, difference, loopAt, reads>>
  /\ UNCHANGED <<mpiVars, matVars, runVars, appVars, ompVars, bandVars, hdf5Vars>>

NextOffset ==
  \/ OffsetDifference
  \/ OffsetSearch

\* ------------------------------------------------------------------ FullBandStructure

\* bandstructure.cpp.  An object holds the matrix energies (one column for
\* each point) and the matrix eigenvectors, and raw pointers to their data.
\* The storage of a matrix is named after the object that owns the matrix.
\* The velocities follow the pattern of the eigenvectors and are left out.

Objects == {"original", "copy"}
PointCounts == {1, 2}
\* the vectors handed to setEnergies: band ib has the energy 10 * tag + ib
EnergyTags == {1, 2}
EnergiesOf(tag, n) == [ib \in 1..n |-> 10 * tag + ib - 1]

NoObject ==
  [state |-> "none", numBands |-> 0, numAtoms |-> 0, numPoints |-> 0,
   hasEigenvectors |-> FALSE, energies |-> <<>>, rawEnergies |-> "",
   rawEigenvectors |-> "", energiesCols |-> 0, eigenvectorsRows |-> 0,
   eigenvectorsCols |-> 0]

\* lines 8-43: FullBandStructure(numBands_, particle_, withVelocities,
\* withEigenvectors, points_), constructing the object o
FullBandStructure(o, numBands_, withEigenvectors, numPoints_) ==
  [state |-> "live",
   numBands |-> numBands_,
   numAtoms |-> numBands_ \div 3,
   numPoints |-> numPoints_,
   hasEigenvectors |-> withEigenvectors,
   energies |-> [ik \in 1..numPoints_ |-> [ib \in 1..numBands_ |-> 0]],
   rawEnergies |-> o,
   rawEigenvectors |-> IF withEigenvectors THEN o ELSE "",
   energiesCols |-> numBands_,
   eigenvectorsRows |-> IF withEigenvectors THEN 3 * (numBands_ \div 3) * numBands_ ELSE 0,
   eigenvectorsCols |-> numBands_ * (numBands_ \div 3) * 3]

\* lines 46-56: the copy constructor: the matrices are copied into the new
\* object, the raw pointers are copied as they are
CopyConstructed(o, that) == that

\* lines 58-78: operator=, the same member by member; the object and that
\* have matrices of the same shape here
Assigned(this, that) == that

getNumPoints(obj) == obj.numPoints
\* lines 88-90
getNumStates(obj) == obj.numBands * getNumPoints(obj)
\* lines 235-238: getIndex(WavevectorIndex ik, BandIndex ib)
getIndexByPoints(obj, ik, ib) == ik * obj.numPoints + ib
getIndex(obj, ik, ib) == ik * obj.numBands + ib
\* decompress2Indeces(iTot, size1, size2)
decompress2Indeces(iTot, size1, size2) == <<iTot \div size2, iTot % size2>>
\* lines 104-107
getEnergy(obj, stateIndex) ==
  LET ikib == decompress2Indeces(stateIndex, getNumPoints(obj), obj.numBands)
  IN obj.energies[ikib[1] + 1][ikib[2] + 1]
\* lines 124-134: energies.col(ik) = energies_
setEnergies(obj, ik, energies_) == [obj EXCEPT !.energies[ik + 1] = energies_]

Live == { o \in Objects : fbs[o].state = "live" }
\* the values of WavevectorIndex and of BandIndex of the object
Wavevectors(o) == 0..(getNumPoints(fbs[o]) - 1)
Bands(o) == 0..(fbs[o].numBands - 1)

BandsIdle ==
  /\ fbs = <<>>
  /\ ret = <<>>

BandsInit ==
  \E numBands_ \in 1..MaxBands : \E numPoints_ \in PointCounts :
  \E withEigenvectors \in BOOLEAN :
    /\ fbs = [o \in Objects |->
                IF o = "original"
                  THEN FullBandStructure(o, numBands_, withEigenvectors, numPoints_)
                  ELSE NoObject]
    /\ ret = [op |-> "FullBandStructure", obj |-> "original"]

BandsFrame == UNCHANGED <<errMessage, mpiVars, matVars, runVars, appVars, ompVars, offsetVars, hdf5Vars>>

BandsSetEnergies(o, ik, tag) ==
  /\ o \in Live
  /\ fbs' = [fbs EXCEPT ![o] = setEnergies(@, ik, EnergiesOf(tag, fbs[o].numBands))]
  /\ ret' = [op |-> "setEnergies", obj |-> o]
  /\ BandsFrame

BandsGetEnergy(o, ik, ib) ==
  /\ o \in Live
  /\ \E stateIndex \in {getIndex(fbs[o], ik, ib)} :
       ret' = [op |-> "getEnergy", obj |-> o, ik |-> ik, ib |-> ib,
               stateIndex |-> stateIndex,
               value |-> IF stateIndex \in 0..(getNumStates(fbs[o]) - 1)
                           THEN getEnergy(fbs[o], stateIndex) ELSE -1]
  /\ UNCHANGED fbs
  /\ BandsFrame

\* FullBandStructure o(that)
BandsCopy(o, that) ==
  /\ fbs[o].state = "none"
  /\ that \in Live
  /\ fbs' = [fbs EXCEPT ![o] = CopyConstructed(o, fbs[that])]
  /\ ret' = [op |-> "FullBandStructure", obj |-> o]
  /\ BandsFrame

\* o = that
BandsAssign(o, that) ==
  /\ o \in Live
  /\ that \in Live
  /\ fbs' = [fbs EXCEPT ![o] = IF o # that THEN Assigned(@, fbs[that]) ELSE @]
  /\ ret' = [op |-> "operator=", obj |-> o]
  /\ BandsFrame

\* the object goes out of scope: its matrices free their storage
BandsDestroy(o) ==
  /\ o \in Live
  /\ fbs' = [fbs EXCEPT ![o].state = "destroyed"]
  /\ ret' = [op |-> "~FullBandStructure", obj |-> o]
  /\ BandsFrame

\* lines 200-224: getState(pointIndex): the State holds pointers into the
\* storage that rawEnergies and rawEigenvectors point into
BandsGetState(o, pointIndex) ==
  /\ o \in Live
  /\ ret' = [op |-> "getState", obj |-> o,
             thisEn |-> [storage |-> fbs[o].rawEnergies,
                         at |-> pointIndex * fbs[o].energiesCols],
             thisEig |-> IF fbs[o].hasEigenvectors
                           THEN [storage |-> fbs[o].rawEigenvectors,
                                 at |-> pointIndex * fbs[o].eigenvectorsCols]
                           ELSE [storage |-> "", at |-> 0]]
  /\ UNCHANGED fbs
  /\ BandsFrame

\* lines 176-192: setEigenvectors(point, eigenvectors_): tmp has
\* numBands * numBands elements and is assigned to a column of eigenvectors
BandsSetEigenvectors(o, ik) ==
  /\ o \in Live
  /\ IF ~fbs[o].hasEigenvectors
       THEN LET e == Error("FullBandStructure was initialized without eigvecs")
            IN /\ errMessage' = e.message
               /\ ret' = [op |-> "setEigenvectors", obj |-> o, error |-> TRUE,
                          tmpSize |-> 0, rows |-> 0]
       ELSE /\ errMessage' = errMessage
            /\ ret' = [op |-> "setEigenvectors", obj |-> o, error |-> FALSE,
                       tmpSize |-> fbs[o].numBands * fbs[o].numBands,
                       rows |-> fbs[o].eigenvectorsRows]
  /\ UNCHANGED fbs
  /\ UNCHANGED <<mpiVars, matVars, runVars, appVars, ompVars, offsetVars, hdf5Vars>>

NextBands ==
  \/ \E o \in Objects : \E ik \in Wavevectors(o) : \E tag \in EnergyTags :
       BandsSetEnergies(o, ik, tag)
  \/ \E o \in Objects : \E ik \in Wavevectors(o) : \E ib \in Bands(o) :
       BandsGetEnergy(o, ik, ib)
  \/ \E o, that \in Objects : BandsCopy(o, that)
  \/ \E o, that \in Objects : BandsAssign(o, that)
  \/ \E o \in Objects : BandsDestroy(o)
  \/ \E o \in Objects : \E ik \in Wavevectors(o) : BandsGetState(o, ik)
  \/ \E o \in Objects : \E ik \in Wavevectors(o) : BandsSetEigenvectors(o, ik)

\* ------------------------------------------------------------------ the HDF5 write

\* Lines 1436-1464 of postProcessingWannier: with MPI and a parallel HDF5,
\* every process writes its share of the flattened gWannier to the data set.

\* the element k of the flattened tensor
Gwan(k) == 100 + k

\* mpi->divideWork(n): the start and the stop of the calling process
workDivs(n, r, sz) == <<workDivisionHead(n, r, sz), workDivisionTail(n, r, sz)>>

\* Eigen::seq(first, last): first, first + 1, ..., last
EigenSeq(first, last) == [k \in 1..(last - first + 1) |-> first + k - 1]

Hdf5Idle ==
  /\ hdf5In = <<>>
  /\ hdf5Pc = <<>>
  /\ gwanSlice = <<>>
  /\ dgwannier = <<>>

\* lines 1440-1449: the file is open, the data set of gwan.size() elements
\* is created
Hdf5Init ==
  \E in \in [numProcs : 1..MaxProcs, gwanSize : 1..MaxTasks] :
    /\ hdf5In = in
    /\ hdf5Pc = [r \in 0..(in.numProcs - 1) |-> "slice"]
    /\ gwanSlice = [r \in 0..(in.numProcs - 1) |-> <<>>]
    /\ dgwannier = [k \in 0..(in.gwanSize - 1) |-> <<>>]

\* lines 1452-1456: workDivs, numElements, and
\* gwanSlice = gwan(Eigen::seq(workDivs[0], workDivs[1])); an index past the
\* end of gwan reads whatever the memory holds
Hdf5Slice(r) ==
  /\ hdf5Pc[r] = "slice"
  /\ LET divs == workDivs(hdf5In.gwanSize, r, hdf5In.numProcs)
         indices == EigenSeq(divs[1], divs[2])
     IN \E stray \in Garbage :
          gwanSlice' = [gwanSlice EXCEPT ![r] =
                          [k \in DOMAIN indices |->
                             [index |-> indices[k],
                              value |-> IF indices[k] < hdf5In.gwanSize
                                          THEN Gwan(indices[k]) ELSE stray]]]
  /\ hdf5Pc' = [hdf5Pc EXCEPT ![r] = "write"]
  /\ UNCHANGED <<hdf5In, dgwannier>>
  /\ UNCHANGED <<errMessage, mpiVars, matVars, runVars, appVars, ompVars, offsetVars, bandVars>>

\* line 1463: dgwannier.select({0, workDivs[0]}, {1, numElements}).write(gwanSlice):
\* the first numElements elements of the buffer go to the selection
Hdf5Write(r) ==
  /\ hdf5Pc[r] = "write"
  /\ LET divs == workDivs(hdf5In.gwanSize, r, hdf5In.numProcs)
         numElements == divs[2] - divs[1]
     IN dgwannier' = [k \in DOMAIN dgwannier |->
                        IF divs[1] <= k /\ k < divs[1] + numElements
                          THEN Append(dgwannier[k], gwanSlice[r][k - divs[1] + 1].value)
                          ELSE dgwannier[k]]
  /\ hdf5Pc' = [hdf5Pc EXCEPT ![r] = "done"]
  /\ UNCHANGED <<hdf5In, gwanSlice>>
  /\ UNCHANGED <<errMessage, mpiVars, matVars, runVars, appVars, ompVars, offsetVars, bandVars>>

NextHdf5 ==
  \E r \in DOMAIN hdf5Pc :
    \/ Hdf5Slice(r)
    \/ Hdf5Write(r)

\* ------------------------------------------------------------------ the idle parts

PartIdle == OmpIdle /\ OffsetIdle /\ BandsIdle /\ Hdf5Idle


\* ------------------------------------------------------------------ specifications

Init == RunInit /\ MpiIdle /\ MatIdle /\ AppIdle /\ PartIdle
Spec == Init /\ [][Next]_vars

InitMPI == MpiInit /\ MatIdle /\ RunIdle /\ AppIdle /\ PartIdle
SpecMPI == InitMPI /\ [][NextMPI]_vars

InitMatrix == MatInit /\ MpiIdle /\ RunIdle /\ AppIdle /\ PartIdle

InitApp == AppInit /\ MpiIdle /\ MatIdle /\ RunIdle /\ PartIdle
SpecApp == InitApp /\ [][NextApp]_vars
SpecMatrix == InitMatrix /\ [][NextMatrix]_vars

MainIdle == MpiIdle /\ MatIdle /\ RunIdle /\ AppIdle

InitOmp == OmpInit /\ MainIdle /\ OffsetIdle /\ BandsIdle /\ Hdf5Idle
SpecOmp == InitOmp /\ [][NextOmp]_vars

InitOffset == OffsetInit /\ MainIdle /\ OmpIdle /\ BandsIdle /\ Hdf5Idle
SpecOffset == InitOffset /\ [][NextOffset]_vars

InitBands == BandsInit /\ MainIdle /\ OmpIdle /\ OffsetIdle /\ Hdf5Idle
SpecBands == InitBands /\ [][NextBands]_vars

InitHdf5 == Hdf5Init /\ MainIdle /\ OmpIdle /\ OffsetIdle /\ BandsIdle
SpecHdf5 == InitHdf5 /\ [][NextHdf5]_vars

\* ------------------------------------------------------------------ claims

\* the ranks whose range [head, tail) holds index i
Owners(i) == { r \in 0..(size - 1) :
                 workDivisionHeads[r + 1] <= i /\ i < workDivisionTails[r + 1] }

C8_ProdSameInBothModes ==
  (matPc = "prod" /\ matThis.isDistributed = matThat.isDistributed) =>
    Storage(matResult) =
      MatMul(Op(Storage(matThis), matArgs[1]), Op(Storage(matThat), matArgs[2]))

\* C9: prod on two matrices of different storage modes raises an Error and
\* returns no result computed from the storage the argument does not use.
C9_ProdRejectsMixedModes ==
  (matPc = "prod" /\ matThis.isDistributed # matThat.isDistributed) =>
    /\ errMessage # ""
    /\ matResult = NoMatrix

\* ---- PhononTransportApp::run

Count(name) == Cardinality({ i \in 1..Len(calls) : calls[i] = name })
Called(name) == \E i \in 1..Len(calls) : calls[i] = name
WrittenTo(name) == \E i \in 1..Len(out) : out[i].op = "outputToJSON" /\ out[i].file = name
BeforeValidation == pc \in {"construct", "setup", "rta", "select", "validate"}
RelaxonsRequested == Requested(context.solverBTE, "relaxons")
\* the calls a solver makes on the scattering matrix
SolverCalls == {"diagonal", "dot", "offDiagonalDot", "a2Omega", "diagonalize"}
InMemoryMessage ==
  "If scattering matrix is kept in memory, only one temperature/chemical potential is allowed in a run"

\* C3: with relaxons requested, two calculations and the matrix kept in
\* memory, the run is ended by the in-memory Error before setup() is called on
\* the scattering matrix: setup() is never called in such a run.
C3_ErrorBeforeSetup ==
  (pc # "idle" /\ RelaxonsRequested /\ context.numCalcs = 2
     /\ context.scatteringMatrixInMemory) => ~Called("setup")

\* C4: with relaxons requested and the matrix not kept in memory, the run
\* ends at the validation with the Error "Relaxons require matrix kept in
\* memory", and no solver ever calls the scattering matrix or starts a loop.
C4_RelaxonsNeedMemory ==
  (pc # "idle" /\ RelaxonsRequested /\ ~context.scatteringMatrixInMemory) =>
    /\ BeforeValidation \/ pc = "error"
    /\ pc = "error" => errMessage = "Relaxons require matrix kept in memory"
    /\ \A i \in 1..Len(calls) : calls[i] \notin SolverCalls
    /\ converged = {} /\ fOld = None

C4_Witness ==
  /\ context.solverBTE = <<"iterative", "relaxons">>
  /\ ~context.scatteringMatrixInMemory /\ context.numCalcs = 1
  /\ pc = "error" /\ errMessage = "Relaxons require matrix kept in memory"

\* C5: with the matrix kept in memory and a number of calculations other
\* than one, the run ends at the validation with the in-memory Error for
\* every list of solvers, the empty one too, and no solver loop is entered.
C5_InMemoryOneCalc ==
  (pc # "idle" /\ context.scatteringMatrixInMemory /\ context.numCalcs # 1) =>
    /\ BeforeValidation \/ pc = "error"
    /\ pc = "error" => errMessage = InMemoryMessage
    /\ \A i \in 1..Len(calls) : calls[i] \notin SolverCalls
    /\ converged = {} /\ fOld = None

C5_Witness ==
  /\ context.solverBTE = <<>>
  /\ context.scatteringMatrixInMemory /\ context.numCalcs = 2
  /\ pc = "error" /\ errMessage = InMemoryMessage

\* C6: a thermal conductivity is written to omini_phonon_thermal_cond.json or
\* variational_phonon_thermal_cond.json only when the convergence test of
\* that solver has passed, for every maxIterationsBTE; a solver that uses up
\* its iterations without convergence ends the run with the Error.
C6_OnlyConvergedResults ==
  /\ WrittenTo("omini_phonon_thermal_cond.json") => "iterative" \in converged
  /\ WrittenTo("variational_phonon_thermal_cond.json") => "variational" \in converged
  /\ (pc \in {"it_finish", "cg_finish"} /\ iter >= context.maxIterationsBTE) =>
       errMessage = "Reached max BTE iterations without convergence"

\* C7: every pass of the iterative loop sets fNext to
\* fRTA - offDiagonalDot(fOld) / diagonal, where fRTA is the canonical form of
\* popRTA and stays as it is, the diagonal is the one extracted (once) before
\* the loop, and fOld is fRTA in the first pass and the fNext of the pass
\* before in every later one.
C7_IterativeStep ==
  [][ (pc = "it_loop" /\ iter < context.maxIterationsBTE) =>
        /\ fNext' = VecSub(fRTA, VecDiv(offDiagonalDot(context, fOld), diagonal(context)))
        /\ fRTA = population2Canonical(popRTA) /\ fRTA' = fRTA
        /\ sMatrixDiagonal = diagonal(context) /\ sMatrixDiagonal' = sMatrixDiagonal
        /\ Count("diagonal") = 1 /\ Count("diagonal")' = 1
        /\ (iter = 0 => fOld = fRTA)
        /\ (iter > 0 => fOld = fNext) ]_vars

C7_Witness ==
  /\ pc = "it_finish" /\ iter = 1 /\ "iterative" \in converged
  /\ fOld # fRTA /\ fNext # fOld

Index(name) == CHOOSE i \in 1..Len(calls) : calls[i] = name

\* C10 as stated: a2Omega() and diagonalize() are called at most once each;
\* with relaxons requested, the matrix in memory and one calculation, a run
\* that has ended has called each exactly once, a2Omega() first; without
\* relaxons requested neither is called.
C10_ExactlyOnceInAnyRun ==
  /\ Count("a2Omega") <= 1 /\ Count("diagonalize") <= 1
  /\ (pc \in {"done", "error"} /\ RelaxonsRequested
        /\ context.scatteringMatrixInMemory /\ context.numCalcs = 1) =>
       /\ Count("a2Omega") = 1 /\ Count("diagonalize") = 1
       /\ Index("a2Omega") < Index("diagonalize")
  /\ (pc # "idle" /\ ~RelaxonsRequested) => ~Called("a2Omega") /\ ~Called("diagonalize")

\* C10 as amended: a2Omega() and diagonalize() are called at most once each
\* and diagonalize() only after a2Omega(); with relaxons requested, the
\* matrix in memory and one calculation, a run that ends without an Error has
\* called each exactly once; without relaxons requested neither is called.
C10_ExactlyOnceInCompletedRun ==
  /\ Count("a2Omega") <= 1 /\ Count("diagonalize") <= 1
  /\ Called("diagonalize") => Called("a2Omega") /\ Index("a2Omega") < Index("diagonalize")
  /\ (pc = "done" /\ RelaxonsRequested
        /\ context.scatteringMatrixInMemory /\ context.numCalcs = 1) =>
       Count("a2Omega") = 1 /\ Count("diagonalize") = 1
  /\ (pc # "idle" /\ ~RelaxonsRequested) => ~Called("a2Omega") /\ ~Called("diagonalize")

C10_Witness ==
  /\ pc = "done" /\ RelaxonsRequested /\ doIterative
  /\ calls[Len(calls) - 2] = "a2Omega" /\ calls[Len(calls) - 1] = "diagonalize"

\* ---- the order of the calls on the scattering matrix

Listed(name) == name \in { context.solverBTE[i] : i \in 1..Len(context.solverBTE) }
IterativeRan == fRTA # None
VariationalRan == sMatrixDiagonalSqrt # None
RelaxonsRan == Called("a2Omega")
\* the solver block a call on the matrix belongs to; 0: to none, or to several
Block(name) ==
  CASE name = "offDiagonalDot" -> 1
    [] name = "dot" -> 2
    [] name \in {"a2Omega", "diagonalize"} -> 3
    [] OTHER -> 0

\* C11: once a2Omega() or diagonalize() has been called, the run calls none
\* of dot(), offDiagonalDot(), diagonal() on the scattering matrix any more,
\* and the loops of the iterative and the variational solver are over.
C11_NoUseAfterTransform ==
  /\ \A i, j \in 1..Len(calls) :
       (i < j /\ calls[i] \in {"a2Omega", "diagonalize"}) =>
         calls[j] \notin {"dot", "offDiagonalDot", "diagonal"}
  /\ Called("a2Omega") => pc \in {"rx_diagonalize", "rx_output", "final_barrier", "done"}

C11_Witness ==
  /\ pc = "done" /\ Called("offDiagonalDot") /\ Called("dot") /\ Called("diagonal")
  /\ Called("a2Omega") /\ Called("diagonalize")
  /\ context.solverBTE[1] = "relaxons"

\* C12: setup() is called exactly once on the scattering matrix, and it is
\* the first call on it: every other use of the matrix comes after.
C12_SetupOnceAndFirst ==
  /\ Count("setup") <= 1
  /\ calls # <<>> => calls[1] = "setup"
  /\ pc \notin {"idle", "construct", "setup"} => Count("setup") = 1

C12_Witness ==
  /\ pc = "done" /\ Count("setup") = 1 /\ calls[1] = "setup"
  /\ Called("getSingleModeTimes") /\ Called("diagonal") /\ Called("dot")
  /\ Called("offDiagonalDot") /\ Called("a2Omega") /\ Called("diagonalize")
  /\ Called("outputToJSON")

RtaSolved ==
  /\ popRTA # None /\ phononRelTimes # None /\ phTCond # None
  /\ WrittenTo("rta_phonon_thermal_cond.json")
BlocksInOrder ==
  \A i, j \in 1..Len(calls) :
    (i < j /\ Block(calls[i]) > 0 /\ Block(calls[j]) > 0) => Block(calls[i]) <= Block(calls[j])
OnlyOtherNames == ~Listed("iterative") /\ ~Listed("variational") /\ ~Listed("relaxons")

\* C13 as stated: the RTA solution is always computed; in a run that has
\* ended each of the three solvers has run if and only if its name is in the
\* list, in the order iterative, variational, relaxons; a list of other names
\* starts no solver and raises no Error of its own.
C13_SolversIffListed ==
  /\ pc \notin {"idle", "construct", "setup", "rta"} => RtaSolved
  /\ pc \in {"done", "error"} =>
       /\ IterativeRan <=> Listed("iterative")
       /\ VariationalRan <=> Listed("variational")
       /\ RelaxonsRan <=> Listed("relaxons")
  /\ BlocksInOrder
  /\ (pc # "idle" /\ OnlyOtherNames) =>
       /\ ~IterativeRan /\ ~VariationalRan /\ ~RelaxonsRan
       /\ errMessage \in {"", InMemoryMessage}

\* C13 as amended: the RTA solution is always computed; a solver runs only
\* if its name is in the list, and in a run that ends without an Error each
\* of the three has run if and only if its name is in the list, in the order
\* iterative, variational, relaxons; a list of other names starts no solver
\* and raises no Error of its own.
C13_SolversIffListedInCompletedRun ==
  /\ pc \notin {"idle", "construct", "setup", "rta"} => RtaSolved
  /\ IterativeRan => Listed("iterative")
  /\ VariationalRan => Listed("variational")
  /\ RelaxonsRan => Listed("relaxons")
  /\ pc = "done" =>
       /\ IterativeRan <=> Listed("iterative")
       /\ VariationalRan <=> Listed("variational")
       /\ RelaxonsRan <=> Listed("relaxons")
  /\ BlocksInOrder
  /\ (pc # "idle" /\ OnlyOtherNames) =>
       /\ ~IterativeRan /\ ~VariationalRan /\ ~RelaxonsRan
       /\ errMessage \in {"", InMemoryMessage}

C13_Witness ==
  /\ pc = "done" /\ context.solverBTE = <<"relaxons", "rta", "iterative">>
  /\ IterativeRan /\ RelaxonsRan /\ ~VariationalRan /\ RtaSolved

\* C17: a barrier that returns a code other than MPI_SUCCESS ends the run:
\* errorReport aborts every process of the communicator, and the process
\* that got the code does nothing after it (no work is divided, no further
\* barrier is entered).
C17_FailedBarrierAborts ==
  (errCode \notin {"", "MPI_SUCCESS"}) =>
    /\ mpiPc = "aborted"
    /\ \A r \in DOMAIN world : world[r] = "aborted"
    /\ ~ENABLED NextMPI

C17_Witness ==
  /\ errCode = "MPI_ERR_COMM" /\ mpiPc = "aborted" /\ size = 4 /\ numTasks = 3
  /\ \A r \in 0..3 : world[r] = "aborted"

\* ---- ElPhQeToPhoebeApp: the reductions

AtStep(r) == Program(appPc)[procPc[r]]
Running(r) == appPc # "idle" /\ procPc[r] \in 1..Len(Program(appPc))
Elements(var) ==
  { <<a, b>> : a \in 0..(Dims(var, appIn)[1] - 1), b \in 0..(Dims(var, appIn)[2] - 1) }

\* every loop over divided work finds its tensor zeroed and the tensors it
\* reads reduced
ZeroedAndReducedBeforeUse ==
  \A r \in DOMAIN procPc :
    (Running(r) /\ AtStep(r).op = "fill") =>
      /\ AtStep(r).var \in mem[r].zeroed
      /\ Reads(AtStep(r).var) \subseteq mem[r].reduced

\* a reduced tensor is, on every process, what one process computes that runs
\* the whole loop alone from zero
ReducedIsWholeLoop ==
  \A r \in DOMAIN procPc : \A var \in mem[r].reduced :
    mem[r].val[var] =
      Fill(var, 0..(LoopCount(var, appIn) - 1),
           [mem[r].val EXCEPT ![var] = setZero(var, appIn)], appIn)

\* an element of a reduced tensor is what exactly one process computed; the
\* other processes hold zero for it
OneOwner(var) ==
  \A r \in DOMAIN procPc :
    var \in mem[r].reduced =>
      \A e \in Elements(var) :
        \E o \in DOMAIN procPc :
          /\ mem[o].part[var][e[1]][e[2]] = mem[r].val[var][e[1]][e[2]]
          /\ \A q \in DOMAIN procPc \ {o} : mem[q].part[var][e[1]][e[2]] = 0

\* C14 as stated: every tensor filled in a loop over divided work is zeroed
\* before the loop and sum-reduced before a later step reads it; after the
\* reduction every process holds the same tensor, that of the whole loop, and
\* each element is the value computed by the one process that owns its index.
C14_ReducedOwnedByOne ==
  appPc # "idle" =>
    /\ ZeroedAndReducedBeforeUse
    /\ ReducedIsWholeLoop
    /\ \A var \in TensorNames(appPc) : OneOwner(var)

\* C14 as amended: as above, but an element of g2Epa, which has no index
\* over the divided q points, is the sum of the contributions of all q
\* points, each computed once by the process that owns the q point.
C14_ReducedIsWholeLoop ==
  appPc # "idle" =>
    /\ ZeroedAndReducedBeforeUse
    /\ ReducedIsWholeLoop
    /\ \A var \in TensorNames(appPc) \ {"g2Epa"} : OneOwner(var)

C14_Witness ==
  /\ appPc = "blochToWannier" /\ appIn.numProcs = 2 /\ appIn.garbage = 7
  /\ appIn.numQPoints = 2 /\ appIn.numKPoints = 2 /\ appIn.numElBravaisVectors = 2
  /\ \A r \in DOMAIN procPc : procPc[r] = Len(BlochToWannier) + 1
  /\ mem[0].val["gWannier"] = mem[1].val["gWannier"]
  /\ mem[0].part["gWannier"][0][1] = 0 /\ mem[1].part["gWannier"][0][1] > 0

\* ---- ElPhQeToPhoebeApp: the broadcasts

Reading == appPc \in {"readQEPhoebeHeader", "readGFromQEFile"}
Returned(r) == procPc[r] = Len(Program(appPc)) + 1

WrittenValue(name) ==
  out[CHOOSE i \in 1..Len(out) : out[i].op = "outputToJSON" /\ out[i].file = name].value
BudgetMessage == "Reached max BTE iterations without convergence"

CGAlpha == ArrDiv(VecDot(gOld, hOld), VecDot(hOld, tOld))
CGResidual == VecSub(gOld, VecScale(tOld, CGAlpha))
CGBeta == ArrDiv(VecDot(CGResidual, CGResidual), VecDot(gOld, gOld))

\* C18: at the start of every pass of the variational loop tOld is
\* scatteringMatrix.dot(hOld) divided by the diagonal, for the hOld of that
\* pass; fOld, gOld and hOld are the initial ones in the first pass, and
\* after a pass that did not converge they are the f, g and h that pass made.
C18_DirectionApplied ==
  [][ (pc = "cg_loop" /\ iter < context.maxIterationsBTE) =>
        /\ tOld = VecDiv(dot(context, hOld), diagonal(context))
        /\ (iter = 0 =>
              /\ fOld = VecMul(population2Canonical(popRTA), VecSqrt(diagonal(context)))
              /\ gOld = VecSub(VecDiv(dot(context, fOld), diagonal(context)), fOld)
              /\ hOld = VecNeg(gOld))
        /\ (pc' = "cg_loop" =>
              /\ fOld' = VecSub(fOld, VecScale(hOld, CGAlpha)) /\ fOld' = fNew'
              /\ gOld' = CGResidual
              /\ hOld' = VecAdd(VecNeg(CGResidual), VecScale(hOld, CGBeta))
              /\ tOld' = VecDiv(dot(context, hOld'), diagonal(context)))
        /\ (pc' = "cg_finish" => fOld' = fOld /\ gOld' = gOld /\ hOld' = hOld) ]_vars

C18_Witness ==
  /\ pc = "cg_loop" /\ iter = 1 /\ context.coupling # Zero
  /\ IsFinite(tOld[1][1]) /\ tOld[1][1] # Zero /\ fOld = fNew /\ hOld # VecNeg(gOld)

InLoop == pc \in {"it_loop", "cg_loop"} /\ iter < context.maxIterationsBTE

\* C19: in both loops pass k compares the thermal conductivity of pass k
\* with that of pass k-1, and pass 0 with the thermal conductivity of the
\* RTA; the loop is left exactly when the largest coefficient of the norm of
\* the difference is strictly below the threshold, and a pass that does not
\* converge stores its thermal conductivity as the previous one.
C19_ComparesWithPreviousPass ==
  [][ InLoop =>
        /\ (iter = 0 => phTCondOld = WrittenValue("rta_phonon_thermal_cond.json"))
        /\ (pc' \in {"it_finish", "cg_finish"}
              <=> RLess(DiffNormMaxCoeff(phTCond', phTCondOld),
                        context.convergenceThresholdBTE))
        /\ (pc' \notin {"it_finish", "cg_finish"} => phTCondOld' = phTCond') ]_vars

\* the result is printed in full and then written to the file
PrintedAndWritten(name) ==
  \E i \in 1..(Len(out) - 1) :
    /\ out[i].op = "print" /\ out[i].object = "phTCond" /\ out[i].iter = -1
    /\ out[i + 1].op = "outputToJSON" /\ out[i + 1].object = "phTCond"
    /\ out[i + 1].file = name
    /\ out[i].value = out[i + 1].value

\* C20: a solver whose convergence test passes in the last iteration
\* permitted ends well: the Error is not raised, and the result is printed
\* and written to the file of the solver.
C20_ConvergedInLastIteration ==
  /\ [][ (InLoop /\ LastIteration(iter, context.maxIterationsBTE)
            /\ RLess(DiffNormMaxCoeff(phTCond', phTCondOld), context.convergenceThresholdBTE)) =>
           /\ pc' = (IF pc = "it_loop" THEN "it_finish" ELSE "cg_finish")
           /\ errMessage' = "" ]_vars
  /\ [][ pc = "it_finish" =>
           pc' = "variational" /\ PrintedAndWritten("omini_phonon_thermal_cond.json")' ]_vars
  /\ [][ pc = "cg_finish" =>
           pc' = "relaxons" /\ PrintedAndWritten("variational_phonon_thermal_cond.json")' ]_vars

C20_Witness ==
  /\ pc = "it_finish" /\ "iterative" \in converged /\ errMessage = ""
  /\ context.maxIterationsBTE = 2 /\ iter = context.maxIterationsBTE - 1

\* ---- the variational solver alone

\* the variational loop as a function of its start: where it ends, after how
\* many passes, and with what thermal conductivity
RECURSIVE CGRun(_, _, _, _, _, _, _, _)
CGRun(ctx, diagSqrt, f0, g0, h0, t0, tCond0, it) ==
  IF ~(it < ctx.maxIterationsBTE) THEN [end |-> "finish", iter |-> it, tCond |-> tCond0]
  ELSE LET alpha == ArrDiv(VecDot(g0, h0), VecDot(h0, t0))
           f == VecSub(f0, VecScale(h0, alpha))
           g == VecSub(g0, VecScale(t0, alpha))
           beta == ArrDiv(VecDot(g, g), VecDot(g0, g0))
           h == VecAdd(VecNeg(g), VecScale(h0, beta))
           tCond == calcVariational(dot(ctx, f), f, diagSqrt)
       IN IF RLess(DiffNormMaxCoeff(tCond, tCond0), ctx.convergenceThresholdBTE)
            THEN [end |-> "finish", iter |-> it, tCond |-> tCond]
          ELSE IF it = ctx.maxIterationsBTE - 1
            THEN [end |-> "error", iter |-> it, tCond |-> tCond]
          ELSE CGRun(ctx, diagSqrt, f, g, h, VecDiv(dot(ctx, h), diagonal(ctx)), tCond, it + 1)

\* the variational solver started from the RTA result only
CGFromRTA ==
  LET diagSqrt == VecSqrt(diagonal(context))
      f == VecMul(population2Canonical(popRTA), diagSqrt)
      g == VecSub(VecDiv(dot(context, f), diagonal(context)), f)
      h == VecNeg(g)
  IN CGRun(context, diagSqrt, f, g, h, VecDiv(dot(context, h), diagonal(context)),
           calcFromPopulation(popRTA), 0)

\* C21: the variational solver does what it does when it runs alone, started
\* from the RTA result, whether or not the iterative solver ran before it:
\* its first convergence test compares with the RTA thermal conductivity,
\* and it ends after the same number of passes, in the same way, with the
\* same thermal conductivity.
C21_VariationalIgnoresIterative ==
  /\ (pc = "cg_loop" /\ iter = 0) => phTCondOld = calcFromPopulation(popRTA)
  /\ pc = "cg_finish" =>
       \E r \in {CGFromRTA} : r.end = "finish" /\ r.iter = iter /\ r.tCond = phTCond
  /\ (pc = "error" /\ VariationalRan) =>
       \E r \in {CGFromRTA} : r.end = "error" /\ r.iter = iter /\ r.tCond = phTCond

\* ---- C22

\* the Wannier rotation of the coupling: the double sum over the bands
Rotation(i, j, nu, in) ==
  SumOver((0..(in.numBands - 1)) \X (0..(in.numBands - 1)),
          [b \in (0..(in.numBands - 1)) \X (0..(in.numBands - 1)) |->
             UKq(b[1], i) * GFullKQ(b[1], b[2], nu) * UKDagger(j, b[2])])

TeamDone == teamPc # <<>> /\ \A t \in DOMAIN teamPc : teamPc[t] = "done"

\* C22: when every thread of the team has left the region, each element
\* gFullTmp(i, j, nu, ik, iq) is the double sum over l and l' of
\* uKq(l, i) * gFull(l, l', nu, ik, iq) * uKDagger(j, l'), whatever the number
\* of threads and whichever thread ran which iteration of the two loops.
C22_RotationForAnyTeam ==
  TeamDone => \A e \in Tmp2Dims(team.in) :
                gFullTmpKQ[e] = Rotation(e[1], e[2], e[3], team.in)

\* with one thread the region computes the rotation
OneThreadRotates ==
  (TeamDone /\ team.in.numThreads = 1) =>
     \A e \in Tmp2Dims(team.in) : gFullTmpKQ[e] = Rotation(e[1], e[2], e[3], team.in)

\* ---- C23, C24

\* the sum over the Wannier bands of the squared differences, the window
\* starting at band i of the ab-initio calculation
WindowDifference(i) ==
  Sum([ib \in 0..(numBandsWannier - 1) |->
         Pow2(energiesQEAtZero[ib + i + 1] - energiesWannierAtZero[ib + 1])],
      numBandsWannier)

\* C23: computeOffset returns the offset i in [0, numFull - numBandsWannier]
\* whose squared energy differences, summed over all the Wannier bands, are
\* smallest (the first such i on a tie), and raises "Bands offset not found"
\* exactly when there is no possible offset.
C23_OffsetMinimizesSum ==
  /\ offsetPc = "returned" =>
       /\ offset \in 0..(numFull - numBandsWannier)
       /\ \A i \in 0..(numFull - numBandsWannier) :
            /\ WindowDifference(offset) <= WindowDifference(i)
            /\ i < offset => WindowDifference(offset) < WindowDifference(i)
  /\ offsetPc \in {"returned", "error"} =>
       ((offsetPc = "error") <=> numFull < numBandsWannier)

\* C24: every indexed read of computeOffset is inside its array, for all
\* numFull >= numBandsWannier >= 1.
C24_ReadsInBounds ==
  (offsetPc # "idle" /\ numFull >= numBandsWannier /\ numBandsWannier >= 1) =>
     \A r \in reads : 0 <= r.index /\ r.index < r.size

\* ---- C25, C26, C27

\* C25: for every object, getIndex(ik, ib) = ik * numBands + ib maps the
\* pairs of a wavevector index and a band index one to one onto
\* 0 .. getNumStates() - 1, with getNumStates() = numBands * numPoints, and
\* getEnergy(getIndex(ik, ib)) returns the energy that setEnergies stored for
\* band ib at point ik.
C25_IndexBijection ==
  /\ \A o \in Live :
       /\ getNumStates(fbs[o]) = fbs[o].numBands * fbs[o].numPoints
       /\ \A ik \in Wavevectors(o) : \A ib \in Bands(o) :
            getIndex(fbs[o], ik, ib) \in 0..(getNumStates(fbs[o]) - 1)
       /\ \A ik, jk \in Wavevectors(o) : \A ib, jb \in Bands(o) :
            getIndex(fbs[o], ik, ib) = getIndex(fbs[o], jk, jb) => ik = jk /\ ib = jb
       /\ \A is \in 0..(getNumStates(fbs[o]) - 1) :
            \E ik \in Wavevectors(o) : \E ib \in Bands(o) : getIndex(fbs[o], ik, ib) = is
  /\ (ret # <<>> /\ ret.op = "getEnergy") =>
       ret.value = fbs[ret.obj].energies[ret.ik + 1][ret.ib + 1]

\* getEnergy has returned the energy of the second band at the second point,
\* which setEnergies had stored, the first point still holding zeros
C25_Witness ==
  /\ ret # <<>>
  /\ ret.op = "getEnergy"
  /\ ret.ik = 1
  /\ ret.ib = 1
  /\ ret.value = 21
  /\ fbs[ret.obj].energies[1][2] = 0

\* C26: the pointers that getState hands to the State point into the storage
\* of the object getState was called on, also when the object was made by the
\* copy constructor or assigned with operator=.
C26_PointersIntoOwnStorage ==
  (ret # <<>> /\ ret.op = "getState") =>
     /\ ret.thisEn.storage = ret.obj
     /\ fbs[ret.obj].hasEigenvectors => ret.thisEig.storage = ret.obj

\* C27: in setEigenvectors the vector tmp, of numBands * numBands elements,
\* has the length of the column it is assigned to, 3 * numAtoms * numBands
\* rows, which is also eigenvectorsCols, for every numBands >= 1.
C27_EigenvectorLengths ==
  (ret # <<>> /\ ret.op = "setEigenvectors" /\ ~ret.error) =>
     /\ ret.tmpSize = ret.rows
     /\ ret.rows = fbs[ret.obj].eigenvectorsCols

\* ---- C28

SliceTaken(r) == hdf5Pc[r] # "slice"

\* C28: the slice of gwan that a process takes has workDivs[1] - workDivs[0]
\* elements, every element of it is an element of gwan (for the last rank
\* too), and once every process has taken its slice each element of gwan is
\* in exactly one slice.
C28_SlicesPartitionGwan ==
  /\ \A r \in DOMAIN hdf5Pc : SliceTaken(r) =>
       LET divs == workDivs(hdf5In.gwanSize, r, hdf5In.numProcs)
       IN /\ Len(gwanSlice[r]) = divs[2] - divs[1]
          /\ \A k \in DOMAIN gwanSlice[r] :
               gwanSlice[r][k].index \in 0..(hdf5In.gwanSize - 1)
  /\ (hdf5Pc # <<>> /\ \A r \in DOMAIN hdf5Pc : SliceTaken(r)) =>
       \A e \in 0..(hdf5In.gwanSize - 1) :
         Cardinality({ rk \in { <<r, k>> : r \in DOMAIN hdf5Pc, k \in 1..(MaxTasks + 1) } :
                         /\ rk[2] \in DOMAIN gwanSlice[rk[1]]
                         /\ gwanSlice[rk[1]][rk[2]].index = e }) = 1

\* what reaches the file: every element of the data set is written once, with
\* the element of gwan of its place
DatasetIsGwan ==
  (hdf5Pc # <<>> /\ \A r \in DOMAIN hdf5Pc : hdf5Pc[r] = "done") =>
     \A e \in DOMAIN dgwannier : dgwannier[e] = <<Gwan(e)>>

\* ---- C29

\* the observable a file is named after
ObservableOf(file) ==
  CASE file = "rta_ph_relaxation_times.json" -> "scatteringMatrix"
    [] file = "rta_phonon_thermal_cond.json" -> "phTCond"
    [] file = "wigner_phonon_thermal_cond.json" -> "phTCondWigner"
    [] file = "rta_phonon_viscosity.json" -> "phViscosity"
    [] file = "specific_heat.json" -> "specificHeat"
    [] file = "relaxons_relaxation_times.json" -> "scatteringMatrix"
    [] file = "relaxons_phonon_viscosity.json" -> "phViscosity"
    [] OTHER -> "phTCond"    \* the thermal conductivity files of the solvers

\* C29: every file the run writes comes from the observable it is named
\* after: rta_phonon_thermal_cond.json holds the thermal conductivity of the
\* RTA, wigner_phonon_thermal_cond.json holds the Wigner thermal conductivity
\* that phTCondWigner computed.
C29_FilesHoldTheirObservable ==
  \A i \in 1..Len(out) : out[i].op = "outputToJSON" =>
    /\ out[i].object = ObservableOf(out[i].file)
    /\ out[i].file = "rta_phonon_thermal_cond.json" =>
         out[i].value = calcFromPopulation(popRTA)
    /\ out[i].file = "wigner_phonon_thermal_cond.json" =>
         out[i].value = phTCondWigner

\* the other files come from their observables
OtherFiles ==
  \A i \in 1..Len(out) :
    (out[i].op = "outputToJSON" /\ out[i].file # "wigner_phonon_thermal_cond.json") =>
       out[i].object = ObservableOf(out[i].file)

\* ---- C30

====
